---- MODULE Spec2Model ----
(***************************************************************************)
(* A model of the stl3d toolkit: the STL repair engines (stl-fixer.py and  *)
(* stl3d-gui/modules/stl_repair.py), the reduction engine (stl-reducer.py),*)
(* the stl-repair-tool, the output-path conventions of the tools, the      *)
(* clean_model component filter and the GUI surfaces with their worker     *)
(* threads.  Each subsystem has its own variables, its own next-state      *)
(* relation and its own specification; all of them start from one idle     *)
(* state and draw their inputs in their first action.                      *)
(*                                                                         *)
(* The mesh library (trimesh) is outside the repository.  A mesh is        *)
(* modelled by the three properties the code reads from it, and every      *)
(* library call that rebuilds a mesh yields any mesh the library can       *)
(* return, or raises.                                                      *)
(***************************************************************************)
EXTENDS Integers, Sequences, FiniteSets, TLC

(***************************************************************************)
(* Bounds of the model.                                                    *)
(***************************************************************************)
MaxIterations == 2
MaxTimeout == 2
MaxClock == 3
MaxSmooth == 1
MaxVertices == 8
MaxDuplicates == 1
MaxEdges == 2
MaxComponents == 3
MaxFaces == 10
MaxDegenerate == 1
MaxDepth == 2
MaxBorder == 1
MaxSide == 2
MaxCoord == 2
MaxEdits == 1
MaxTabEvents == 2
MaxLevels == 3
MaxPerLevel == 3
MaxFiltered == 3
MaxWrites == 2

VARIABLES
    \* ---- repair engines: fix_stl / make_watertight / validate_stl -------
    pc,               \* position inside fix_stl / the CLI around it
    engine,           \* "fixer" (stl-fixer.py) or "module" (modules/stl_repair.py)
    front,            \* "cli" (command_line_interface) or "call" (direct call)
    opts,             \* the parameters of the run
    repaired_mesh,    \* the mesh held by fix_stl
    iteration,        \* fix_stl's loop counter
    stages,           \* the stages that have rebuilt the mesh so far
    mesh_after_basic, \* the mesh as it left the basic-repair loop
    loop_exit,        \* how the basic-repair loop was left
    clock,            \* wall clock (time.time())
    start_time,       \* make_watertight's start_time
    log,              \* the lines printed so far (set of message tags)
    exported,         \* what export() has written: [written, mesh]
    result,           \* what fix_stl returned
    exit_code,        \* the CLI's exit code
    is_valid,         \* result of validate_stl: "none", "True", "False"
    validated,        \* the file validate_stl was called on
    \* ---- reduction engine: reduce_mesh_size (stl-reducer.py) ------------
    red_pc,           \* position inside reduce_mesh_size / its CLI
    red_opts,         \* parameters and environment of the run
    method,           \* the local variable method
    decimated_mesh,   \* "None", or the step that produced the mesh
    tried,            \* the decimation methods attempted, in order
    disk,             \* STL files the run has left under output/stl-reducer/
    raised_in,        \* the step whose exception reached the outer handler
    stats,            \* return value: "none" (running), "stats", "None"
    red_exit,         \* the CLI's exit code
    original_vertices,\* len(mesh_data.vertices) right after loading
    n_vertices,       \* len(mesh_data.vertices) after merge_vertices / process
    reduced_vertices, \* len(decimated_mesh.vertices)
    \* ---- stl-repair-tool.py: main / repair_mesh -------------------------
    rt_pc,            \* position inside main / repair_mesh
    rt_args,          \* the parsed arguments and whether the input exists
    rt_disk,          \* STL files the run has written
    rt_before,        \* non_manifold_edges_before
    rt_after,         \* non_manifold_edges_after
    rt_success,       \* first component of repair_mesh's result
    rt_message,       \* what main tells the user at the end
    rt_exit,          \* exit code of the process
    \* ---- clean_model ----------------------------------------------------
    cl_pc,            \* position inside clean_model
    components,       \* face count of every connected component, in split order
    component_sizes,  \* the (index, size) pairs, sorted by size, largest first
    main_components,  \* indices kept, in the order they were appended
    artifacts,        \* indices discarded, in the order they were appended
    kept,             \* indices of the components the returned mesh is made of
    faces_out,        \* len(mesh_data.faces) of the returned mesh
    \* ---- where a tool writes its result ---------------------------------
    pt_pc,            \* position inside the tool
    tool,             \* which tool runs
    request,          \* the output argument, and the timestamp switch
    output_path,      \* the path after the tool has adjusted it
    written,          \* the path the STL file was written to
    \* ---- the GUI surfaces -----------------------------------------------
    gui_pc,           \* position of the click handler / worker thread
    surface,          \* which window or tab was clicked
    fields,           \* what the entry widgets hold
    status_var,       \* the status line
    operation,        \* which button: "run" or "validate"
    outcome,          \* what the engine called by the worker did
    worker,           \* the worker thread: none, running, finished, died
    \* ---- image_to_stl ---------------------------------------------------
    im_pc,            \* position inside image_to_stl
    im_opts,          \* the parameters, the image size, the libraries present
    object_only,      \* the local variable object_only
    grid,             \* rows and cols of height_map
    object_mask,      \* whether object_mask has been computed
    im_mesh,          \* what the vertex and face lists describe
    im_log,           \* lines printed
    vertices0,        \* a vertex as it leaves the mesh construction
    vertices,         \* the same vertex while the rotations are applied
    \* ---- stand-alone GUIs: jobs -----------------------------------------
    jb_pc,            \* position of the GUI job: closed, idle, started, dispatched
    jb_surface,       \* which stand-alone GUI is open
    tkvars,           \* the Tk variables and entries of the window
    clicked,          \* the widgets as the last click left them
    thread_args,      \* the args tuple of the worker thread
    job,              \* the parameters the worker hands to the engine
    edits,            \* user events served since the click
    \* ---- unified application -----------------------------------------------
    app_pc,           \* position of the unified application: init, running
    current_tab,      \* index of the selected notebook tab
    stdout_target,    \* the log widget sys.stdout writes to
    tab_events,       \* <<NotebookTabChanged>> events not yet handled
    image_entries,    \* input and output entry of the image tab
    repair_entries,   \* input and output entry of the repair tab
    app_status,       \* the status line of the application
    app_worker,       \* the tab whose button started the running worker, or -1
    printed_to,       \* the log panels the worker's prints went to
    \* ---- extract_contours --------------------------------------------------
    cc_pc,            \* position inside extract_contours
    cc_opts,          \* is_photo, num_contours and what the image holds
    cc_level,         \* the loop index i of the photo branch
    contours_all,     \* the list contours_all
    filtered_contours, \* len(filtered_contours) of the adaptive branch
    evaluated,        \* the branches that have run
    cc_log,           \* lines printed
    cc_result,        \* the contours returned
    \* ---- log widget --------------------------------------------------------
    lg_pc,            \* position of each worker inside RedirectText.write
    lg_done,          \* how many strings each worker has written
    ui_pc,            \* position of the UI thread inside a clear of the log
    text_state,       \* the state option of the log widget
    log_text,         \* the strings held by the log widget
    lg_expected,      \* strings inserted since the last clear
    \* ---- height-field mesh of image_to_stl ---------------------------------
    hf_pc,            \* position inside the mesh construction of image_to_stl
    hf_rows,          \* rows of height_map
    hf_cols,          \* cols of height_map
    hf_i,             \* loop variable i
    hf_j,             \* loop variable j
    hf_vertices,      \* len(vertices)
    hf_faces,         \* the list faces, triples of vertex indices
    \* ---- target size of image_to_stl ---------------------------------------
    rs_pc,            \* position inside the size resolution of image_to_stl
    rs_img,           \* orig_width, orig_height = img.size
    rs_args,          \* the arguments width, height (0 = None), max_size
    rs_size,          \* width and height as computed so far
    \* ---- numeric input mask ------------------------------------------------
    en_pc,            \* position of the user at a numeric field
    en_literal,       \* the accepted literal the user is typing
    en_text,          \* content of the Entry widget
    en_refused        \* the mask refused the last keystroke

repairVars == <<pc, engine, front, opts, repaired_mesh, iteration, stages,
                mesh_after_basic, loop_exit, clock, start_time, log, exported,
                result, exit_code, is_valid, validated>>

reduceVars == <<red_pc, red_opts, method, decimated_mesh, tried, disk,
                raised_in, stats, red_exit, original_vertices, n_vertices,
                reduced_vertices>>

toolVars == <<rt_pc, rt_args, rt_disk, rt_before, rt_after, rt_success,
              rt_message, rt_exit>>

cleanVars == <<cl_pc, components, component_sizes, main_components, artifacts,
               kept, faces_out>>

pathVars == <<pt_pc, tool, request, output_path, written>>

guiVars == <<gui_pc, surface, fields, status_var, operation, outcome, worker>>

imageVars == <<im_pc, im_opts, object_only, grid, object_mask, im_mesh, im_log,
               vertices0, vertices>>

jobVars == <<jb_pc, jb_surface, tkvars, clicked, thread_args, job, edits>>

appVars == <<app_pc, current_tab, stdout_target, tab_events, image_entries,
             repair_entries, app_status, app_worker, printed_to>>

contourVars == <<cc_pc, cc_opts, cc_level, contours_all, filtered_contours,
                 evaluated, cc_log, cc_result>>

logVars == <<lg_pc, lg_done, ui_pc, text_state, log_text, lg_expected>>

meshVars == <<hf_pc, hf_rows, hf_cols, hf_i, hf_j, hf_vertices, hf_faces>>

sizeVars == <<rs_pc, rs_img, rs_args, rs_size>>

entryVars == <<en_pc, en_literal, en_text, en_refused>>

vars == <<repairVars, reduceVars, toolVars, cleanVars, pathVars, guiVars,
          imageVars, jobVars, appVars, contourVars, logVars, meshVars,
          sizeVars, entryVars>>

\* the variables of the other subsystems
notRepair == <<reduceVars, toolVars, cleanVars, pathVars, guiVars, imageVars,
               jobVars, appVars, contourVars, logVars, meshVars, sizeVars,
               entryVars>>
notReduce == <<repairVars, toolVars, cleanVars, pathVars, guiVars, imageVars,
               jobVars, appVars, contourVars, logVars, meshVars, sizeVars,
               entryVars>>
notTool == <<repairVars, reduceVars, cleanVars, pathVars, guiVars, imageVars,
             jobVars, appVars, contourVars, logVars, meshVars, sizeVars,
             entryVars>>
notClean == <<repairVars, reduceVars, toolVars, pathVars, guiVars, imageVars,
              jobVars, appVars, contourVars, logVars, meshVars, sizeVars,
              entryVars>>
notPath == <<repairVars, reduceVars, toolVars, cleanVars, guiVars, imageVars,
             jobVars, appVars, contourVars, logVars, meshVars, sizeVars,
             entryVars>>
notGui == <<repairVars, reduceVars, toolVars, cleanVars, pathVars, imageVars,
            jobVars, appVars, contourVars, logVars, meshVars, sizeVars,
            entryVars>>
notImage == <<repairVars, reduceVars, toolVars, cleanVars, pathVars, guiVars,
              jobVars, appVars, contourVars, logVars, meshVars, sizeVars,
              entryVars>>
notJob == <<repairVars, reduceVars, toolVars, cleanVars, pathVars, guiVars,
            imageVars, appVars, contourVars, logVars, meshVars, sizeVars,
            entryVars>>
notApp == <<repairVars, reduceVars, toolVars, cleanVars, pathVars, guiVars,
            imageVars, jobVars, contourVars, logVars, meshVars, sizeVars,
            entryVars>>
notContour == <<repairVars, reduceVars, toolVars, cleanVars, pathVars,
                guiVars, imageVars, jobVars, appVars, logVars, meshVars,
                sizeVars, entryVars>>
notLog == <<repairVars, reduceVars, toolVars, cleanVars, pathVars, guiVars,
            imageVars, jobVars, appVars, contourVars, meshVars, sizeVars,
            entryVars>>
notMesh == <<repairVars, reduceVars, toolVars, cleanVars, pathVars, guiVars,
             imageVars, jobVars, appVars, contourVars, logVars, sizeVars,
             entryVars>>
notSize == <<repairVars, reduceVars, toolVars, cleanVars, pathVars, guiVars,
             imageVars, jobVars, appVars, contourVars, logVars, meshVars,
             entryVars>>
notEntry == <<repairVars, reduceVars, toolVars, cleanVars, pathVars, guiVars,
              imageVars, jobVars, appVars, contourVars, logVars, meshVars,
              sizeVars>>

(***************************************************************************)
(* Meshes.  trimesh reports an empty mesh as neither watertight nor        *)
(* winding-consistent, so those combinations are excluded.                 *)
(***************************************************************************)
Mesh == {m \in [wt : BOOLEAN, wc : BOOLEAN, empty : BOOLEAN] :
            m.empty => (~m.wt /\ ~m.wc)}

NoMesh == [wt |-> FALSE, wc |-> FALSE, empty |-> TRUE]

Engines == {"fixer", "module"}

RepairOpts == [verbose : BOOLEAN, aggressive : BOOLEAN, clean : BOOLEAN,
               max_iterations : 0..MaxIterations, timeout : 0..MaxTimeout,
               validate : BOOLEAN, has_input : BOOLEAN, is_file : BOOLEAN]

NoFile == [loads |-> FALSE, mesh |-> NoMesh]

NoOpts == [verbose |-> FALSE, aggressive |-> FALSE, clean |-> FALSE,
           max_iterations |-> 0, timeout |-> 0, validate |-> FALSE,
           has_input |-> FALSE, is_file |-> FALSE]

InitRepair ==
    /\ pc = "idle"
    /\ engine = "fixer"
    /\ front = "call"
    /\ opts = NoOpts
    /\ repaired_mesh = NoMesh
    /\ iteration = 0
    /\ stages = {}
    /\ mesh_after_basic = NoMesh
    /\ loop_exit = "none"
    /\ clock = 0
    /\ start_time = 0
    /\ log = {}
    /\ exported = [written |-> FALSE, mesh |-> NoMesh]
    /\ result = "none"
    /\ exit_code = -1
    /\ is_valid = "none"
    /\ validated = NoFile

Methods == {"basic", "quadric", "voxel"}

\* has_pymeshlab: "import pymeshlab" succeeds; has_quadric: the mesh engine
\* exposes simplify_quadric_decimation and its own imports succeed
\* reduction_factor is given in tenths: 1..10 stands for 0.1 .. 1.0
Factors == 1..10

ReduceOpts == [method : Methods, has_pymeshlab : BOOLEAN, has_quadric : BOOLEAN,
               smooth_iterations : 0..MaxSmooth, reduction_factor : Factors,
               has_input : BOOLEAN, is_file : BOOLEAN]

NoReduceOpts == [method |-> "basic", has_pymeshlab |-> FALSE,
                 has_quadric |-> FALSE, smooth_iterations |-> 0,
                 reduction_factor |-> 5,
                 has_input |-> FALSE, is_file |-> FALSE]

InitReduce ==
    /\ red_pc = "idle"
    /\ red_opts = NoReduceOpts
    /\ method = "basic"
    /\ decimated_mesh = "None"
    /\ tried = <<>>
    /\ disk = {}
    /\ raised_in = "none"
    /\ stats = "none"
    /\ red_exit = -1
    /\ original_vertices = 0
    /\ n_vertices = 0
    /\ reduced_vertices = 0

ToolArgs == [exists : BOOLEAN, verbose : BOOLEAN, intermediate : BOOLEAN]

NoToolArgs == [exists |-> FALSE, verbose |-> FALSE, intermediate |-> FALSE]

InitTool ==
    /\ rt_pc = "idle"
    /\ rt_args = NoToolArgs
    /\ rt_disk = {}
    /\ rt_before = 0
    /\ rt_after = 0
    /\ rt_success = "none"
    /\ rt_message = "none"
    /\ rt_exit = -1

InitClean ==
    /\ cl_pc = "idle"
    /\ components = <<>>
    /\ component_sizes = <<>>
    /\ main_components = <<>>
    /\ artifacts = <<>>
    /\ kept = {}
    /\ faces_out = 0

NoRequest ==
    [given |-> FALSE, path |-> <<>>, use_timestamp |-> FALSE, input |-> <<>>]

InitPath ==
    /\ pt_pc = "idle"
    /\ tool = "none"
    /\ request = NoRequest
    /\ output_path = <<>>
    /\ written = <<>>

Numerics == {"valid", "not_a_number", "out_of_range"}

Fields == [input : BOOLEAN, output : BOOLEAN, numeric : Numerics]

NoFields == [input |-> FALSE, output |-> FALSE, numeric |-> "valid"]

InitGui ==
    /\ gui_pc = "idle"
    /\ surface = "none"
    /\ fields = NoFields
    /\ status_var = "Bereit"
    /\ operation = "none"
    /\ outcome = "none"
    /\ worker = "none"

ImageEngines == {"image-to-stl.py", "modules/image_to_stl.py"}

ImageOpts == [engine : ImageEngines, object_only : BOOLEAN,
              has_scipy : BOOLEAN, has_skimage : BOOLEAN,
              border : 0..MaxBorder, rows : 1..MaxSide, cols : 1..MaxSide,
              rotate_x : BOOLEAN, rotate_y : BOOLEAN, rotate_z : BOOLEAN]

NoImageOpts == [engine |-> "image-to-stl.py", object_only |-> FALSE,
                has_scipy |-> FALSE, has_skimage |-> FALSE, border |-> 0,
                rows |-> 1, cols |-> 1, rotate_x |-> FALSE,
                rotate_y |-> FALSE, rotate_z |-> FALSE]

NoGrid == [rows |-> 0, cols |-> 0]

NoImageMesh == [kind |-> "none", rows |-> 0, cols |-> 0, parts |-> {}]

InitImage ==
    /\ im_pc = "idle"
    /\ im_opts = NoImageOpts
    /\ object_only = FALSE
    /\ grid = NoGrid
    /\ object_mask = FALSE
    /\ im_mesh = NoImageMesh
    /\ im_log = {}
    /\ vertices0 = <<0, 0, 0>>
    /\ vertices = <<0, 0, 0>>

NoTkVars == [input_entry |-> ""]
NoJob == [input_file |-> ""]

InitJob ==
    /\ jb_pc = "closed"
    /\ jb_surface = "none"
    /\ tkvars = NoTkVars
    /\ clicked = NoTkVars
    /\ thread_args = NoJob
    /\ job = NoJob
    /\ edits = 0

NoEntries == [input_entry |-> <<>>, output_entry |-> <<>>]

InitApp ==
    /\ app_pc = "init"
    /\ current_tab = 0
    /\ stdout_target = "console"
    /\ tab_events = 0
    /\ image_entries = NoEntries
    /\ repair_entries = NoEntries
    /\ app_status = "Bereit"
    /\ app_worker = -1
    /\ printed_to = {}

NoContourOpts == [is_photo |-> FALSE, num_contours |-> 0, found |-> <<>>]

InitContour ==
    /\ cc_pc = "idle"
    /\ cc_opts = NoContourOpts
    /\ cc_level = 0
    /\ contours_all = <<>>
    /\ filtered_contours = 0
    /\ evaluated = {}
    /\ cc_log = {}
    /\ cc_result = <<>>

Writers == {"worker1", "worker2"}

InitLog ==
    /\ lg_pc = [w \in Writers |-> "idle"]
    /\ lg_done = [w \in Writers |-> 0]
    /\ ui_pc = "idle"
    /\ text_state = "disabled"
    /\ log_text = {}
    /\ lg_expected = {}

InitMesh ==
    /\ hf_pc = "idle"
    /\ hf_rows = 0
    /\ hf_cols = 0
    /\ hf_i = 0
    /\ hf_j = 0
    /\ hf_vertices = 0
    /\ hf_faces = <<>>

InitSize ==
    /\ rs_pc = "idle"
    /\ rs_img = [orig_width |-> 0, orig_height |-> 0]
    /\ rs_args = [width |-> 0, height |-> 0, max_size |-> 0]
    /\ rs_size = [width |-> 0, height |-> 0]

InitEntry ==
    /\ en_pc = "idle"
    /\ en_literal = <<>>
    /\ en_text = <<>>
    /\ en_refused = FALSE

Init ==
    /\ InitRepair /\ InitReduce /\ InitTool /\ InitClean /\ InitPath
    /\ InitGui /\ InitImage /\ InitJob /\ InitApp /\ InitContour /\ InitLog
    /\ InitMesh /\ InitSize /\ InitEntry

(***************************************************************************)
(* A file handed to trimesh.load_mesh: it either decodes to a mesh or the  *)
(* load raises.                                                            *)
(***************************************************************************)
StlFile == {f \in [loads : BOOLEAN, mesh : Mesh] : ~f.loads => f.mesh = NoMesh}


\* time.time() read after a library call that started at clock value c
Later(c) == c..MaxClock

(***************************************************************************)
(* validate_stl: everything happens inside one try block whose handler     *)
(* returns (False, {}).                                                    *)
(***************************************************************************)
validate_stl_no_winding(f) ==
    IF f.loads
    THEN f.mesh.wt /\ ~f.mesh.empty
    ELSE FALSE

validate_stl(f) ==
    IF f.loads
    THEN f.mesh.wt /\ f.mesh.wc /\ ~f.mesh.empty
    ELSE FALSE

BoolStr(b) == IF b THEN "True" ELSE "False"

\* the except clause of fix_stl: stl-fixer.py prints and returns False,
\* the GUI module prints and re-raises
fix_stl_except ==
    /\ pc' = "returned"
    /\ result' = IF engine = "fixer" THEN "False" ELSE "raised"
    /\ log' = log \cup {"Fehler beim Verarbeiten"}

(***************************************************************************)
(* Entry points.                                                           *)
(***************************************************************************)
\* a direct call of fix_stl (GUI worker, or the embedded GUI of stl-fixer)
fix_stl_call ==
    /\ pc = "idle"
    /\ \E e \in Engines, o \in RepairOpts :
          /\ o.has_input /\ o.is_file /\ ~o.validate
          /\ engine' = e
          /\ opts' = o
    /\ front' = "call"
    /\ pc' = "load"
    /\ UNCHANGED <<repaired_mesh, iteration, stages, mesh_after_basic, loop_exit,
                   clock, start_time, log, exported, result, exit_code, is_valid, validated>>
    /\ UNCHANGED notRepair

\* stl-fixer.py command_line_interface up to the call of an engine function
command_line_interface ==
    /\ pc = "idle"
    /\ \E o \in RepairOpts :
          /\ opts' = o
          /\ o.is_file => o.has_input
          /\ IF ~o.has_input \/ ~o.is_file
             THEN pc' = "exit" /\ exit_code' = 1
             ELSE /\ pc' = IF o.validate THEN "validate" ELSE "load"
                  /\ UNCHANGED exit_code
    /\ engine' = "fixer"
    /\ front' = "cli"
    /\ UNCHANGED <<repaired_mesh, iteration, stages, mesh_after_basic, loop_exit,
                   clock, start_time, log, exported, result, is_valid, validated>>
    /\ UNCHANGED notRepair

\* the --validate branch of command_line_interface
cli_validate ==
    /\ pc = "validate"
    /\ \E f \in StlFile :
          /\ is_valid' = BoolStr(validate_stl(f))
          /\ validated' = f
          /\ exit_code' = IF validate_stl(f) THEN 0 ELSE 1
    /\ pc' = "exit"
    /\ UNCHANGED <<engine, front, opts, repaired_mesh, result, iteration, stages, mesh_after_basic,
                   loop_exit, clock, start_time, log, exported>>
    /\ UNCHANGED notRepair

(***************************************************************************)
(* fix_stl, step by step.                                                  *)
(***************************************************************************)
fix_stl_load ==
    /\ pc = "load"
    /\ \E f \in StlFile :
          IF f.loads
          THEN /\ repaired_mesh' = f.mesh
               /\ pc' = "clean"
               /\ UNCHANGED <<result, log>>
          ELSE /\ fix_stl_except
               /\ UNCHANGED repaired_mesh
    /\ UNCHANGED <<engine, front, opts, iteration, stages, mesh_after_basic,
                   loop_exit, clock, start_time, exported, exit_code, is_valid, validated>>
    /\ UNCHANGED notRepair

fix_stl_clean ==
    /\ pc = "clean"
    /\ IF opts.clean
       THEN \/ \E m \in Mesh :
                 /\ repaired_mesh' = m
                 /\ stages' = stages \cup {"clean"}
                 /\ pc' = "loop"
                 /\ UNCHANGED <<result, log>>
            \/ /\ fix_stl_except
               /\ UNCHANGED <<repaired_mesh, stages>>
       ELSE /\ pc' = "loop"
            /\ UNCHANGED <<repaired_mesh, stages, result, log>>
    /\ iteration' = 0
    /\ UNCHANGED <<engine, front, opts, mesh_after_basic, loop_exit, clock,
                   start_time, exported, exit_code, is_valid, validated>>
    /\ UNCHANGED notRepair

\* the condition of the while loop
loop_condition ==
    /\ (~repaired_mesh.wt \/ ~repaired_mesh.wc)
    /\ iteration < opts.max_iterations

\* the test that ends a pass with break
pass_break(m) == m.wt

\* one pass of the loop body
fix_stl_pass ==
    /\ pc = "loop"
    /\ loop_condition
    /\ iteration' = iteration + 1
    /\ \/ \E m \in Mesh :
             /\ repaired_mesh' = m
             /\ stages' = stages \cup {"basic"}
             /\ IF pass_break(m)
                THEN /\ pc' = "after_loop"
                     /\ loop_exit' = "break"
                     /\ mesh_after_basic' = m
                ELSE /\ pc' = "loop"
                     /\ UNCHANGED <<loop_exit, mesh_after_basic>>
             /\ UNCHANGED <<result, log>>
       \/ /\ fix_stl_except
          /\ UNCHANGED <<repaired_mesh, stages, loop_exit, mesh_after_basic>>
    /\ UNCHANGED <<engine, front, opts, clock, start_time, exported,
                   exit_code, is_valid, validated>>
    /\ UNCHANGED notRepair

\* the loop condition is false
fix_stl_loop_end ==
    /\ pc = "loop"
    /\ ~loop_condition
    /\ pc' = "after_loop"
    /\ loop_exit' = "condition"
    /\ mesh_after_basic' = repaired_mesh
    /\ UNCHANGED <<engine, front, opts, repaired_mesh, iteration, stages,
                   clock, start_time, log, exported, result, exit_code, is_valid, validated>>
    /\ UNCHANGED notRepair

aggressive_guard_ignores_flag == ~repaired_mesh.wt

\* "if aggressive and not repaired_mesh.is_watertight"
aggressive_guard == opts.aggressive /\ ~repaired_mesh.wt

fix_stl_aggressive ==
    /\ pc = "after_loop"
    /\ IF aggressive_guard
       THEN /\ pc' = "mw_fill"
            /\ start_time' = clock
            /\ stages' = stages \cup {"aggressive"}
       ELSE /\ pc' = "report"
            /\ UNCHANGED <<start_time, stages>>
    /\ UNCHANGED <<engine, front, opts, repaired_mesh, iteration,
                   mesh_after_basic, loop_exit, clock, log, exported, result,
                   exit_code, is_valid, validated>>
    /\ UNCHANGED notRepair

(***************************************************************************)
(* make_watertight, step by step.  An exception raised by a step that is   *)
(* not inside one of its own try blocks reaches the handler of fix_stl.    *)
(***************************************************************************)
deadline_open == (clock - start_time) < opts.timeout

\* steps 1-2: merge_vertices, unique_faces, fill_holes, first return
mw_fill ==
    /\ pc = "mw_fill"
    /\ \/ \E m \in Mesh, t \in Later(clock) :
             /\ repaired_mesh' = m
             /\ clock' = t
             /\ pc' = IF m.wt THEN "report" ELSE "mw_simplify"
             /\ stages' = stages \cup (IF m.wt THEN {"fill_returned"} ELSE {})
             /\ UNCHANGED <<result, log>>
       \/ /\ fix_stl_except
          /\ UNCHANGED <<repaired_mesh, clock, stages>>
    /\ UNCHANGED <<engine, front, opts, iteration, mesh_after_basic,
                   loop_exit, start_time, exported, exit_code, is_valid,
                   validated>>
    /\ UNCHANGED notRepair

\* step 3: strip unreferenced vertices, keep the largest component,
\* fix_normals, second return
mw_simplify ==
    /\ pc = "mw_simplify"
    /\ \/ \E m \in Mesh, t \in Later(clock) :
             /\ repaired_mesh' = m
             /\ clock' = t
             /\ pc' = IF m.wt THEN "report" ELSE "mw_hull"
             /\ stages' = stages \cup {"largest"}
                              \cup (IF m.wt THEN {"largest_returned"} ELSE {})
             /\ UNCHANGED <<result, log>>
       \/ /\ fix_stl_except
          /\ stages' = stages \cup {"largest"}
          /\ UNCHANGED <<repaired_mesh, clock>>
    /\ UNCHANGED <<engine, front, opts, iteration, mesh_after_basic,
                   loop_exit, start_time, exported, exit_code, is_valid, validated>>
    /\ UNCHANGED notRepair

\* "if hull_mesh is not None and len(hull_mesh.faces) > 0", the same test
\* for the voxel remesh
has_faces_and_watertight(m) == ~m.empty /\ m.wt
has_faces(m) == ~m.empty

\* step 4: convex hull, inside its own try block; stages also records
\* whether the hull had faces and whether it was returned
mw_hull ==
    /\ pc = "mw_hull"
    /\ IF ~repaired_mesh.wt /\ deadline_open
       THEN /\ \E t \in Later(clock) :
                  /\ clock' = t
                  /\ \/ \E h \in Mesh :          \* a hull was computed
                          /\ stages' = stages \cup {"hull"}
                               \cup (IF ~h.empty THEN {"hull_faces"} ELSE {})
                               \cup (IF has_faces(h) THEN {"hull_returned"}
                                     ELSE {})
                          /\ IF has_faces(h)
                             THEN /\ repaired_mesh' = h
                                  /\ pc' = "report"
                             ELSE /\ pc' = "mw_voxel"
                                  /\ UNCHANGED repaired_mesh
                     \/ /\ pc' = "mw_voxel"      \* it raised
                        /\ stages' = stages \cup {"hull"}
                        /\ UNCHANGED repaired_mesh
       ELSE /\ pc' = "mw_voxel"
            /\ UNCHANGED <<stages, clock, repaired_mesh>>
    /\ UNCHANGED <<engine, front, opts, iteration, mesh_after_basic, loop_exit,
                   start_time, log, exported, result, exit_code, is_valid, validated>>
    /\ UNCHANGED notRepair

\* step 5: voxelization and marching cubes, inside its own try block
mw_voxel ==
    /\ pc = "mw_voxel"
    /\ IF ~repaired_mesh.wt /\ deadline_open
       THEN /\ \E t \in Later(clock) :
                  /\ clock' = t
                  /\ \/ \E v \in Mesh :          \* a remesh was computed
                          /\ stages' = stages \cup {"voxel"}
                               \cup (IF ~v.empty THEN {"voxel_faces"} ELSE {})
                               \cup (IF has_faces(v) THEN {"voxel_returned"}
                                     ELSE {})
                          /\ IF has_faces(v)
                             THEN /\ repaired_mesh' = v
                                  /\ pc' = "report"
                             ELSE /\ pc' = "mw_final"
                                  /\ UNCHANGED repaired_mesh
                     \/ /\ pc' = "mw_final"      \* it raised
                        /\ stages' = stages \cup {"voxel"}
                        /\ UNCHANGED repaired_mesh
       ELSE /\ pc' = "mw_final"
            /\ UNCHANGED <<stages, clock, repaired_mesh>>
    /\ UNCHANGED <<engine, front, opts, iteration, mesh_after_basic, loop_exit,
                   start_time, log, exported, result, exit_code, is_valid, validated>>
    /\ UNCHANGED notRepair

\* make_watertight prints unconditionally in stl-fixer.py, only when
\* verbose in the GUI module
mw_prints == engine = "fixer" \/ opts.verbose

\* step 6: give the best mesh back
mw_final ==
    /\ pc = "mw_final"
    /\ log' = log \cup
           (IF mw_prints /\ ~deadline_open THEN {"Zeitlimit erreicht"} ELSE {})
           \cup (IF mw_prints THEN {"Gebe bestmoegliches Mesh zurueck"} ELSE {})
    /\ pc' = "report"
    /\ stages' = stages \cup {"best_returned"}
    /\ UNCHANGED <<engine, front, opts, repaired_mesh, iteration,
                   mesh_after_basic, loop_exit, clock, start_time, exported,
                   result, exit_code, is_valid, validated>>
    /\ UNCHANGED notRepair

(***************************************************************************)
(* The end of fix_stl: the verbose report, the export, the return value.   *)
(***************************************************************************)
report_lines ==
    IF opts.verbose
    THEN {IF repaired_mesh.wt THEN "SUCCESS: wasserdicht"
                              ELSE "WARNUNG: nicht wasserdicht"}
         \cup {IF repaired_mesh.wc THEN "SUCCESS: konsistent"
                                   ELSE "WARNUNG: inkonsistent"}
         \cup (IF ~repaired_mesh.wt /\ ~opts.aggressive THEN {"TIPP"} ELSE {})
    ELSE {}

fix_stl_export ==
    /\ pc = "report"
    /\ \/ /\ exported' = [written |-> TRUE, mesh |-> repaired_mesh]
          /\ result' = IF engine = "fixer" THEN "True" ELSE "path"
          /\ log' = log \cup report_lines
          /\ pc' = "returned"
       \/ /\ fix_stl_except               \* export raised
          /\ UNCHANGED exported
    /\ UNCHANGED <<engine, front, opts, repaired_mesh, iteration, stages,
                   mesh_after_basic, loop_exit, clock, start_time, exit_code,
                   is_valid, validated>>
    /\ UNCHANGED notRepair

\* command_line_interface after fix_stl has returned
cli_exit ==
    /\ pc = "returned"
    /\ front = "cli"
    /\ IF result = "True"
       THEN /\ exit_code' = 0
            /\ IF opts.verbose
               THEN \E f \in StlFile :       \* validate_stl(output_file)
                       /\ is_valid' = BoolStr(validate_stl(f))
                       /\ validated' = f
                       /\ log' = log \cup
                            {IF f.loads /\ f.mesh.wt
                             THEN "SUCCESS: Mesh ist wasserdicht"
                             ELSE "WARNUNG: Mesh ist nicht wasserdicht"}
               ELSE UNCHANGED <<is_valid, validated, log>>
       ELSE /\ exit_code' = 1
            /\ log' = log \cup {"Reparatur fehlgeschlagen"}
            /\ UNCHANGED <<is_valid, validated>>
    /\ pc' = "exit"
    /\ UNCHANGED <<engine, front, opts, repaired_mesh, iteration, stages,
                   mesh_after_basic, loop_exit, clock, start_time, exported,
                   result>>
    /\ UNCHANGED notRepair

\* a direct call of validate_stl (the validate buttons, the --validate flag
\* is cli_validate)
validate_stl_call ==
    /\ pc = "idle"
    /\ \E e \in Engines, f \in StlFile :
          /\ engine' = e
          /\ is_valid' = BoolStr(validate_stl(f))
          /\ validated' = f
    /\ front' = "call"
    /\ pc' = "validated"
    /\ UNCHANGED <<opts, repaired_mesh, result, iteration, stages, mesh_after_basic, loop_exit, clock,
                   start_time, log, exported, exit_code>>
    /\ UNCHANGED notRepair

NextRepair ==
    \/ fix_stl_call
    \/ command_line_interface
    \/ cli_validate
    \/ validate_stl_call
    \/ fix_stl_load
    \/ fix_stl_clean
    \/ fix_stl_pass
    \/ fix_stl_loop_end
    \/ fix_stl_aggressive
    \/ mw_fill
    \/ mw_simplify
    \/ mw_hull
    \/ mw_voxel
    \/ mw_final
    \/ fix_stl_export
    \/ cli_exit

SpecRepair == Init /\ [][NextRepair]_vars

(***************************************************************************)
(* Properties of the repair engines.                                       *)
(***************************************************************************)
InMakeWatertight ==
    pc \in {"mw_fill", "mw_simplify", "mw_hull", "mw_voxel", "mw_final"}

\* C1: the basic-repair loop runs at most max_iterations passes, and it is
\* left before max_iterations passes have run only with a mesh that is both
\* watertight and winding-consistent.
C1_LoopStopsEarlyOnlyWhenSound ==
    /\ iteration <= opts.max_iterations
    /\ (pc = "after_loop" /\ iteration < opts.max_iterations)
          => (repaired_mesh.wt /\ repaired_mesh.wc)

\* C9: validate_stl answers True exactly when the file loads and its mesh is
\* watertight, winding-consistent and not empty; otherwise it answers False.
C9_ValidIffLoadsAndSound ==
    is_valid # "none" =>
        /\ is_valid \in {"True", "False"}
        /\ (is_valid = "True") <=>
              (/\ validated.loads
               /\ validated.mesh.wt
               /\ validated.mesh.wc
               /\ ~validated.mesh.empty)

C9_Witness ==
    /\ pc = "validated"
    /\ is_valid = "False"
    /\ validated.loads /\ validated.mesh.wt /\ ~validated.mesh.wc

\* C10: make_watertight is entered only when aggressive is set and the mesh
\* that left the basic-repair loop is not watertight; in every other run the
\* exported mesh is the mesh that left the basic-repair loop, rebuilt by
\* clean_model and the basic passes only.
C10_AggressiveOnlyWhenEnabledAndLeaky ==
    /\ (InMakeWatertight \/ "aggressive" \in stages)
          => (opts.aggressive /\ ~mesh_after_basic.wt)
    /\ (exported.written /\ ~(opts.aggressive /\ ~mesh_after_basic.wt))
          => (/\ exported.mesh = mesh_after_basic
              /\ stages \subseteq {"clean", "basic"})

C10_Witness ==
    /\ exported.written
    /\ "aggressive" \in stages
    /\ "hull" \in stages

\* the lines that tell the user the result is not watertight
NotWatertightWarnings ==
    {"WARNUNG: nicht wasserdicht", "WARNUNG: Mesh ist nicht wasserdicht",
     "Gebe bestmoegliches Mesh zurueck"}

run_over ==
    \/ front = "cli" /\ pc = "exit"
    \/ front # "cli" /\ pc = "returned"

\* C11: a repair run that ends with a mesh that is still not watertight
\* does not fail for that: the mesh is exported, the run reports success,
\* and a warning that the result is not watertight has been emitted,
\* whatever the verbose and aggressive options are.
C11_LeakyResultIsExportedWithWarning ==
    (run_over /\ exported.written /\ ~exported.mesh.wt)
        => /\ result \in {"True", "path"}
           /\ log \cap NotWatertightWarnings # {}

\* the steps of make_watertight that a transition starts
starts_simplify == pc = "mw_simplify"
starts_hull == pc = "mw_hull" /\ "hull" \in stages' /\ "hull" \notin stages
starts_voxel == pc = "mw_voxel" /\ "voxel" \in stages' /\ "voxel" \notin stages

\* C21: every step of aggressive repair after entry is bounded by one
\* shared deadline, timeout seconds after entry: the largest-component
\* selection, the convex hull and the voxelization are not started once the
\* deadline has passed.
C21_NoStepStartsAfterDeadline ==
    [][(starts_simplify \/ starts_hull \/ starts_voxel) => deadline_open]_vars

\* the part of it the code keeps: hull and voxelization
C21_HullAndVoxelWithinDeadline ==
    [][(starts_hull \/ starts_voxel) => deadline_open]_vars

mw_returned ==
    stages \cap {"fill_returned", "largest_returned", "hull_returned",
                 "voxel_returned", "best_returned"}

\* C22: aggressive repair returns the first result available in the fixed
\* order re-filled mesh (if watertight), largest component (if watertight),
\* convex hull (if it has faces), voxel remesh (if it has faces), best mesh
\* so far; a later step runs only when the earlier ones gave no result, and
\* voxelization is never attempted in a run whose convex-hull step returned
\* a mesh.
C22_FirstAvailableResultInOrder ==
    /\ pc \in {"mw_simplify", "mw_hull", "mw_voxel", "mw_final"}
          => (~repaired_mesh.wt /\ mw_returned = {})
    /\ "fill_returned" \in stages
          => stages \cap {"largest", "hull", "voxel"} = {}
    /\ "largest_returned" \in stages => stages \cap {"hull", "voxel"} = {}
    /\ "hull_faces" \in stages
          => ("hull_returned" \in stages /\ "voxel" \notin stages)
    /\ "voxel_faces" \in stages => "voxel_returned" \in stages
    /\ "best_returned" \in stages
          => stages \cap {"hull_faces", "voxel_faces"} = {}
    /\ pc = "report"
          => /\ "aggressive" \in stages => \E r \in mw_returned : mw_returned = {r}
             /\ stages \cap {"fill_returned", "largest_returned"} # {}
                   => repaired_mesh.wt
             /\ stages \cap {"hull_returned", "voxel_returned"} # {}
                   => ~repaired_mesh.empty

\* the hull step gave a hull with faces that is not watertight, and it was
\* returned without voxelization
C22_Witness ==
    /\ pc = "report"
    /\ "hull_returned" \in stages
    /\ "voxel" \notin stages
    /\ ~repaired_mesh.wt
    /\ ~repaired_mesh.empty

(***************************************************************************)
(* The reduction engine: reduce_mesh_size of stl-reducer.py.               *)
(***************************************************************************)
\* the except clause that wraps the whole of reduce_mesh_size
reduce_except(step) ==
    /\ red_pc' = "returned"
    /\ stats' = "None"
    /\ raised_in' = step

\* a direct call (STLReducerGUI._reduce_thread)
reduce_mesh_size_call ==
    /\ red_pc = "idle"
    /\ \E o \in ReduceOpts :
          /\ o.has_input /\ o.is_file
          /\ red_opts' = o
          /\ method' = o.method
    /\ red_pc' = "load"
    /\ red_exit' = -2                     \* no exit code: not the CLI
    /\ UNCHANGED <<decimated_mesh, tried, disk, raised_in, stats,
                   original_vertices, n_vertices, reduced_vertices>>
    /\ UNCHANGED notReduce

\* command_line_interface of stl-reducer.py up to the engine call
reducer_cli ==
    /\ red_pc = "idle"
    /\ \E o \in ReduceOpts :
          /\ o.is_file => o.has_input
          /\ red_opts' = o
          /\ method' = o.method
          /\ IF ~o.has_input \/ ~o.is_file
             THEN red_pc' = "exit" /\ red_exit' = 1
             ELSE red_pc' = "load" /\ UNCHANGED red_exit
    /\ UNCHANGED <<decimated_mesh, tried, disk, raised_in, stats,
                   original_vertices, n_vertices, reduced_vertices>>
    /\ UNCHANGED notReduce

\* load_mesh, then merge_vertices and process
reduce_load ==
    /\ red_pc = "load"
    /\ \/ \E n \in 0..MaxVertices, d \in 0..MaxDuplicates :
             /\ d <= n
             /\ original_vertices' = n
             /\ n_vertices' = n - d
             /\ red_pc' = "pymeshlab"
             /\ UNCHANGED <<stats, raised_in>>
       \/ /\ reduce_except("load")
          /\ UNCHANGED <<original_vertices, n_vertices>>
       \/ \E n \in 0..MaxVertices :
             /\ original_vertices' = n
             /\ reduce_except("merge")
             /\ UNCHANGED n_vertices
    /\ UNCHANGED <<red_opts, method, decimated_mesh, tried, disk, red_exit,
                   reduced_vertices>>
    /\ UNCHANGED notReduce

\* "if method in ['quadric', 'basic']": the round trip through pymeshlab.
\* Only ImportError is caught here; any other exception of the block
\* reaches the outer handler.
reduce_pymeshlab ==
    /\ red_pc = "pymeshlab"
    /\ IF method \in {"quadric", "basic"}
       THEN IF ~red_opts.has_pymeshlab
            THEN \* except ImportError
                 /\ method' = IF method = "quadric" THEN "voxel" ELSE "basic"
                 /\ red_pc' = "inprocess"
                 /\ UNCHANGED <<decimated_mesh, tried, disk, stats, raised_in>>
            ELSE /\ tried' = Append(tried, "pymeshlab")
                 /\ UNCHANGED method
                 /\ \/ \* mesh_data.export(temp_file) raises
                       /\ reduce_except("pymeshlab")
                       /\ UNCHANGED <<decimated_mesh, disk>>
                    \/ \* load_new_mesh, the decimation filter or
                       \* save_current_mesh raises
                       /\ reduce_except("pymeshlab")
                       /\ disk' = disk \cup {"temp_mesh.stl"}
                       /\ UNCHANGED decimated_mesh
                    \/ \* reloading the decimated file raises
                       /\ reduce_except("pymeshlab")
                       /\ disk' = disk \cup {"temp_mesh.stl", "decimated_mesh.stl"}
                       /\ UNCHANGED decimated_mesh
                    \/ \* success; "try: os.remove x 2 except: pass"
                       /\ decimated_mesh' = "pymeshlab"
                       /\ red_pc' = "inprocess"
                       /\ \E left \in {{}, {"decimated_mesh.stl"},
                                        {"temp_mesh.stl", "decimated_mesh.stl"}} :
                             disk' = disk \cup left
                       /\ UNCHANGED <<stats, raised_in>>
       ELSE /\ red_pc' = "inprocess"
            /\ UNCHANGED <<method, decimated_mesh, tried, disk, stats, raised_in>>
    /\ UNCHANGED <<red_opts, red_exit, original_vertices, n_vertices,
                   reduced_vertices>>
    /\ UNCHANGED notReduce

\* lines 166-205: the in-process quadric decimation, then voxelization.
\* The quadric attempt catches ImportError and AttributeError only; the
\* voxel attempt catches every exception.
reduce_inprocess ==
    /\ red_pc = "inprocess"
    /\ \E quadric \in {"skipped", "ok", "unavailable", "raised"},
          voxel \in {"skipped", "ok", "raised"} :
          LET try_quadric == method = "quadric" /\ decimated_mesh = "None"
              method1 == IF try_quadric /\ quadric = "unavailable"
                         THEN "voxel" ELSE method
              mesh1 == IF try_quadric /\ quadric = "ok"
                       THEN "quadric" ELSE decimated_mesh
              tried1 == IF try_quadric THEN Append(tried, "quadric") ELSE tried
              try_voxel == method1 = "voxel" /\ mesh1 = "None"
          IN  /\ (quadric = "skipped") <=> ~try_quadric
              /\ quadric = "unavailable" => ~red_opts.has_quadric
              /\ quadric \in {"ok", "raised"} => red_opts.has_quadric
              /\ IF try_quadric /\ quadric = "raised"
                 THEN /\ voxel = "skipped"
                      /\ reduce_except("quadric")
                      /\ tried' = tried1
                      /\ UNCHANGED <<method, decimated_mesh>>
                 ELSE /\ (voxel = "skipped") <=> ~try_voxel
                      /\ tried' = IF try_voxel THEN Append(tried1, "voxel")
                                                ELSE tried1
                      /\ method' = IF try_voxel /\ voxel = "raised"
                                   THEN "basic" ELSE method1
                      /\ decimated_mesh' = IF try_voxel /\ voxel = "ok"
                                           THEN "voxel" ELSE mesh1
                      /\ red_pc' = "manual"
                      /\ UNCHANGED <<stats, raised_in>>
    /\ UNCHANGED <<red_opts, disk, red_exit, original_vertices, n_vertices,
                   reduced_vertices>>
    /\ UNCHANGED notReduce

\* lines 207-249: the manual vertex reduction with its own catch-all, whose
\* handler falls back to the merged mesh
\* int(x) of a non-negative quotient
int_of(num, den) == num \div den

n_target_ceil(n, f) ==
    LET t == (n * f + 9) \div 10 IN IF t < 3 THEN 3 ELSE t
\* n_target = int(n_vertices * reduction_factor), at least 3
n_target(n, f) ==
    LET t == int_of(n * f, 10) IN IF t < 3 THEN 3 ELSE t

\* how many different vertices np.linspace(0, n - 1, n_target, dtype=int)
\* selects (reduction_factor <= 1)
selected_count(n, f) == IF n_target(n, f) < n THEN n_target(n, f) ELSE n

reduce_manual ==
    /\ red_pc = "manual"
    /\ IF decimated_mesh = "None"
       THEN /\ tried' = Append(tried, "manual")
            /\ \/ \* ConvexHull succeeds: it needs four points that do
                  \* not lie in a plane; hull.vertices is a subset of the
                  \* selected points
                  \E h \in 4..selected_count(n_vertices,
                                             red_opts.reduction_factor) :
                     /\ decimated_mesh' = "hull"
                     /\ reduced_vertices' = h
               \/ \* "except Exception": decimated_mesh = mesh_data
                  /\ decimated_mesh' = "merged"
                  /\ reduced_vertices' = n_vertices
       ELSE /\ UNCHANGED <<tried, decimated_mesh>>
            /\ \E v \in 0..MaxVertices : reduced_vertices' = v
    /\ red_pc' = "finish"
    /\ UNCHANGED <<red_opts, method, disk, raised_in, stats, red_exit,
                   original_vertices, n_vertices>>
    /\ UNCHANGED notReduce

\* lines 254-312: smoothing, removal of degenerate faces, export, statistics
reduce_finish ==
    /\ red_pc = "finish"
    /\ \/ /\ red_opts.smooth_iterations > 0
          /\ reduce_except("smooth")
          /\ UNCHANGED disk
       \/ /\ reduce_except("export")
          /\ UNCHANGED disk
       \/ /\ disk' = disk \cup {"output"}
          /\ stats' = "stats"
          /\ red_pc' = "returned"
          /\ UNCHANGED raised_in
    /\ UNCHANGED <<red_opts, method, decimated_mesh, tried, red_exit,
                   original_vertices, n_vertices, reduced_vertices>>
    /\ UNCHANGED notReduce

\* command_line_interface after reduce_mesh_size has returned
reducer_cli_exit ==
    /\ red_pc = "returned"
    /\ red_exit = -1
    /\ red_exit' = IF stats = "stats" THEN 0 ELSE 1
    /\ red_pc' = "exit"
    /\ UNCHANGED <<red_opts, method, decimated_mesh, tried, disk, raised_in,
                   stats, original_vertices, n_vertices, reduced_vertices>>
    /\ UNCHANGED notReduce

NextReduce ==
    \/ reduce_mesh_size_call
    \/ reducer_cli
    \/ reduce_load
    \/ reduce_pymeshlab
    \/ reduce_inprocess
    \/ reduce_manual
    \/ reduce_finish
    \/ reducer_cli_exit

SpecReduce == Init /\ [][NextReduce]_vars

(***************************************************************************)
(* Properties of the reduction engine.                                     *)
(***************************************************************************)
DecimationSteps == {"pymeshlab", "quadric", "voxel", "manual"}

\* C2: once the mesh has loaded, no failure of a decimation method reaches
\* the outer handler: a run in which nothing but decimation methods failed
\* exports a mesh and returns statistics, never None.
C2_DecimationFailureNeverAborts ==
    /\ raised_in \notin DecimationSteps
    /\ (red_pc = "returned" /\ raised_in = "none")
          => (stats = "stats" /\ "output" \in disk)

\* round(num / den) as Python rounds: to the nearest integer, a tie to the
\* even neighbour
round_half_even(num, den) ==
    LET q == num \div den
        r == num % den
    IN  IF 2 * r < den THEN q
        ELSE IF 2 * r > den THEN q + 1
        ELSE IF q % 2 = 0 THEN q ELSE q + 1

\* max(3, round(original_vertex_count * f))
vertex_bound ==
    LET b == round_half_even(original_vertices * red_opts.reduction_factor, 10)
    IN  IF b < 3 THEN 3 ELSE b

C20_QuadricInProcessBeforeVoxel ==
    (red_opts.method = "quadric" /\ ~red_opts.has_pymeshlab
        /\ red_pc \in {"manual", "finish", "returned", "exit"})
        => /\ \E i \in 1..Len(tried) : tried[i] = "quadric"
           /\ \A j \in 1..Len(tried) :
                 tried[j] = "voxel"
                    => \E i \in 1..(j - 1) : tried[i] = "quadric"

\* C4: a run that ends in failure leaves no STL file it has written (final,
\* intermediate or temporary) on disk.
C4_FailedRunLeavesNoStl ==
    stats = "None" => disk = {}

(***************************************************************************)
(* stl-repair-tool.py.  repair_basic and repair_advanced catch their own   *)
(* exceptions; everything else in repair_mesh is inside one try block      *)
(* whose handler returns (False, 0, 0).                                    *)
(***************************************************************************)
repair_mesh_except ==
    /\ rt_success' = "False"
    /\ rt_before' = 0
    /\ rt_after' = 0
    /\ rt_pc' = "returned"

\* main up to the call of repair_mesh
main ==
    /\ rt_pc = "idle"
    /\ \E a \in ToolArgs :
          /\ rt_args' = a
          /\ IF ~a.exists
             THEN rt_pc' = "exit" /\ rt_exit' = 1      \* sys.exit(1)
             ELSE rt_pc' = "load" /\ UNCHANGED rt_exit
    /\ UNCHANGED <<rt_disk, rt_before, rt_after, rt_success, rt_message>>
    /\ UNCHANGED notTool

\* trimesh.load and the count of boundary edges before the repair
repair_mesh_load ==
    /\ rt_pc = "load"
    /\ \/ \E n \in 0..MaxEdges :
             /\ rt_before' = n
             /\ rt_after' = n
             /\ rt_pc' = "original"
             /\ UNCHANGED rt_success
       \/ repair_mesh_except
    /\ UNCHANGED <<rt_args, rt_disk, rt_message, rt_exit>>
    /\ UNCHANGED notTool

\* "if export_intermediate": the _original file, then repair_basic
repair_mesh_original ==
    /\ rt_pc = "original"
    /\ IF rt_args.intermediate
       THEN \/ /\ rt_disk' = rt_disk \cup {"_original"}
               /\ rt_pc' = "basic"
               /\ UNCHANGED <<rt_success, rt_before, rt_after>>
            \/ /\ repair_mesh_except
               /\ UNCHANGED rt_disk
       ELSE /\ rt_pc' = "basic"
            /\ UNCHANGED <<rt_disk, rt_success, rt_before, rt_after>>
    /\ UNCHANGED <<rt_args, rt_message, rt_exit>>
    /\ UNCHANGED notTool

\* repair_basic, the _basic file, repair_advanced and the boundary-edge
\* count after the repair
repair_mesh_repair ==
    /\ rt_pc = "basic"
    /\ \E n \in 0..MaxEdges :
          \/ /\ rt_after' = n
             /\ rt_disk' = rt_disk \cup
                    (IF rt_args.intermediate THEN {"_basic"} ELSE {})
             /\ rt_pc' = "export"
             /\ UNCHANGED <<rt_success, rt_before>>
          \/ /\ rt_args.intermediate          \* exporting _basic raised
             /\ repair_mesh_except
             /\ UNCHANGED rt_disk
    /\ UNCHANGED <<rt_args, rt_message, rt_exit>>
    /\ UNCHANGED notTool

\* repaired_mesh.export(output_file) and the return
repair_mesh_export ==
    /\ rt_pc = "export"
    /\ \/ /\ rt_disk' = rt_disk \cup {"output"}
          /\ rt_success' = "True"
          /\ rt_pc' = "returned"
          /\ UNCHANGED <<rt_before, rt_after>>
       \/ /\ repair_mesh_except
          /\ UNCHANGED rt_disk
    /\ UNCHANGED <<rt_args, rt_message, rt_exit>>
    /\ UNCHANGED notTool

\* the message main prints for a result
main_message(success, before, after) ==
    IF success = "True"
    THEN IF after = 0 THEN "repariert"
         ELSE IF after < before THEN "teilweise repariert"
         ELSE "nicht reduziert"
    ELSE "fehlgeschlagen"

\* exit code of the interpreter when main returns normally
main_returns == 0

\* main after repair_mesh has returned: it prints and returns
main_end ==
    /\ rt_pc = "returned"
    /\ rt_message' = main_message(rt_success, rt_before, rt_after)
    /\ rt_exit' = main_returns
    /\ rt_pc' = "exit"
    /\ UNCHANGED <<rt_args, rt_disk, rt_before, rt_after, rt_success>>
    /\ UNCHANGED notTool

NextTool ==
    \/ main
    \/ repair_mesh_load
    \/ repair_mesh_original
    \/ repair_mesh_repair
    \/ repair_mesh_export
    \/ main_end

SpecTool == Init /\ [][NextTool]_vars

\* C5: a command-line tool exits with code 0 exactly when its run succeeded
\* and with code 1 on every top-level failure (missing input, decode error,
\* processing error reported by its engine).
C5_ExitCodeTellsSuccess ==
    /\ rt_pc = "exit" => ((rt_exit = 0) <=> (rt_success = "True"))
    /\ rt_pc = "exit" => rt_exit \in {0, 1}

(***************************************************************************)
(* clean_model.  A mesh is seen through the face counts of its connected   *)
(* components; the volume stored next to each size takes no part in any    *)
(* decision and is left out.                                               *)
(***************************************************************************)
ComponentLists ==
    UNION { [1..n -> 1..MaxFaces] : n \in 0..MaxComponents }

\* list.sort(key=size, reverse=True) is stable: p goes behind every element
\* that is at least as large
insert_by_size(p, s) ==
    LET k == Cardinality({j \in 1..Len(s) : s[j][2] >= p[2]})
    IN  SubSeq(s, 1, k) \o <<p>> \o SubSeq(s, k + 1, Len(s))

RECURSIVE sort_by_size(_)
sort_by_size(s) ==
    IF s = <<>> THEN <<>>
    ELSE insert_by_size(s[Len(s)], sort_by_size(SubSeq(s, 1, Len(s) - 1)))

\* threshold = main_size * 0.2, in tenths of a face.  The double nearest to
\* 0.2 times an integer below 2^31 compares with an integer size exactly as
\* the rational 2/10 does, so the test is carried out in integers.
threshold(main_size) == main_size * 2

retained_strict(size, main_size) == size * 10 > threshold(main_size)
\* "if size >= threshold"
retained(size, main_size) == size * 10 >= threshold(main_size)

indices_of(s) == [j \in 1..Len(s) |-> s[j][1]]

RECURSIVE total_faces(_)
total_faces(S) ==
    IF S = {} THEN 0
    ELSE LET i == CHOOSE x \in S : TRUE
         IN  components[i] + total_faces(S \ {i})

\* merge_vertices, unique_faces, split, "if len(components) > 1"
clean_model_split ==
    /\ cl_pc = "idle"
    /\ \E c \in ComponentLists :
          /\ components' = c
          /\ IF Len(c) > 1
             THEN cl_pc' = "sizes" /\ UNCHANGED kept
             ELSE cl_pc' = "degenerate" /\ kept' = 1..Len(c)
    /\ UNCHANGED <<component_sizes, main_components, artifacts, faces_out>>
    /\ UNCHANGED notClean

\* the loop that collects the sizes, and the sort
clean_model_sizes ==
    /\ cl_pc = "sizes"
    /\ component_sizes' =
          sort_by_size([i \in 1..Len(components) |-> <<i, components[i]>>])
    /\ cl_pc' = "classify"
    /\ UNCHANGED <<components, main_components, artifacts, kept, faces_out>>
    /\ UNCHANGED notClean

\* main_size, threshold and the loop that fills main_components / artifacts
clean_model_classify ==
    /\ cl_pc = "classify"
    /\ LET main_size == component_sizes[1][2]
       IN  /\ main_components' = indices_of(SelectSeq(component_sizes,
                   LAMBDA c : retained(c[2], main_size)))
           /\ artifacts' = indices_of(SelectSeq(component_sizes,
                   LAMBDA c : ~retained(c[2], main_size)))
    /\ cl_pc' = "keep"
    /\ UNCHANGED <<components, component_sizes, kept, faces_out>>
    /\ UNCHANGED notClean

\* "if len(main_components) < len(components)": rebuild the mesh from the
\* kept components, otherwise the mesh stays as it is
clean_model_keep ==
    /\ cl_pc = "keep"
    /\ kept' = IF Len(main_components) < Len(components)
               THEN {main_components[j] : j \in 1..Len(main_components)}
               ELSE 1..Len(components)
    /\ cl_pc' = "degenerate"
    /\ UNCHANGED <<components, component_sizes, main_components, artifacts,
                   faces_out>>
    /\ UNCHANGED notClean

\* step 3: faces whose area is at most 1e-8 are dropped
clean_model_degenerate ==
    /\ cl_pc = "degenerate"
    /\ LET n == total_faces(kept)
       IN  \E d \in 0..MaxDegenerate :
              /\ d <= n
              /\ faces_out' = n - d
    /\ cl_pc' = "done"
    /\ UNCHANGED <<components, component_sizes, main_components, artifacts,
                   kept>>
    /\ UNCHANGED notClean

NextClean ==
    \/ clean_model_split
    \/ clean_model_sizes
    \/ clean_model_classify
    \/ clean_model_keep
    \/ clean_model_degenerate

SpecClean == Init /\ [][NextClean]_vars

(***************************************************************************)
(* Properties of clean_model.                                              *)
(***************************************************************************)
largest_component ==
    CHOOSE m \in {components[i] : i \in 1..Len(components)} :
        \A i \in 1..Len(components) : components[i] <= m

\* round(0.2 * n): 0.2 * n is never halfway between two integers
round_fifth(n) == (2 * n + 5) \div 10

cleaned == cl_pc \in {"degenerate", "done"} /\ Len(components) > 1

\* C8 (as amended): clean keeps a component exactly when its face count is
\* at least 20% of the largest component's face count N.  A second component
\* of round(0.2 N) faces is kept exactly when round(0.2 N) >= 0.2 N, that is
\* when N mod 5 is 0, 3 or 4, and is discarded otherwise; a component of
\* round(0.2 N) - 1 faces is always discarded.
C8_RetainedIffAtLeastFifth ==
    cleaned =>
        LET N == largest_component
        IN  \A i \in 1..Len(components) :
               /\ (i \in kept) <=> (5 * components[i] >= N)
               /\ components[i] = round_fifth(N)
                     => ((i \in kept) <=> (N % 5 \in {0, 3, 4}))
               /\ components[i] = round_fifth(N) - 1 => i \notin kept

\* a main component of 6 faces loses its companion of round(1.2) = 1 face
C8_Witness ==
    /\ cl_pc = "done"
    /\ \E i, j \in 1..Len(components) :
          /\ components[i] = 6
          /\ components[j] = round_fifth(6)
          /\ largest_component = 6
          /\ i \in kept
          /\ j \notin kept

\* C8 (as stated): clean keeps a component exactly when its face count is at
\* least 20% of the largest component's face count, and for every N a second
\* component of round(0.2 N) faces is kept while one of round(0.2 N) - 1
\* faces is discarded.
C8_RoundedFifthAlwaysRetained ==
    cleaned =>
        LET N == largest_component
        IN  \A i \in 1..Len(components) :
               /\ (i \in kept) <=> (5 * components[i] >= N)
               /\ components[i] = round_fifth(N) => i \in kept
               /\ components[i] = round_fifth(N) - 1 => i \notin kept

(***************************************************************************)
(* Where a tool writes its result.  A path is a sequence of tokens whose   *)
(* concatenation is the path string; "/" is the separator, extensions are  *)
(* tokens of their own and "_ts" stands for "_" followed by the timestamp. *)
(* No token is a prefix or a suffix of another one, so str.startswith and  *)
(* str.endswith agree with the same tests on token sequences.              *)
(***************************************************************************)
Tools == {"image-to-stl.py", "modules/image_to_stl.py", "stl-repair-tool.py",
          "modules/stl_repair.py", "ui/image_to_stl_tab.py", "stl-fixer.py"}

\* the tools that create a directory of their own under output/
OutputDirTools == Tools \ {"stl-fixer.py"}

script_name(t) ==
    CASE t = "image-to-stl.py" -> "image-to-stl"
      [] t = "modules/image_to_stl.py" -> "image-to-stl"
      [] t = "stl-repair-tool.py" -> "stl-repair-tool"
      [] t = "modules/stl_repair.py" -> "stl-repair"
      [] t = "ui/image_to_stl_tab.py" -> "image-to-stl"
      [] t = "stl-fixer.py" -> "stl-fixer"

\* os.path.join("output", script_name)
create_output_dir(t) == <<"output", "/", script_name(t)>>

Extensions == {".stl", ".STL", ".png"}

\* the input files
InputPaths ==
    {<<"in", "/", "photo", ".png">>, <<"in", "/", "part", ".stl">>,
     <<"part", ".STL">>}

DirNames(t) ==
    {<<"output">>, <<script_name(t)>>, <<script_name(t), "-old">>, <<"sub">>}

RECURSIVE DirPaths(_, _)
DirPaths(t, n) ==
    IF n = 0 THEN {<<>>}
    ELSE {d \o c \o <<"/">> : d \in DirPaths(t, n - 1), c \in DirNames(t)}

FileNames == {<<"model", ".stl">>, <<"model", ".STL">>, <<"model">>}

\* what a user can pass as the output argument
RequestPaths(t) ==
    {root \o d \o f : root \in {<<>>, <<"/">>},
                      d \in UNION {DirPaths(t, n) : n \in 0..MaxDepth},
                      f \in FileNames}

\* stl-fixer.py has no timestamp option; the image module and the image
\* tab are always given an output path
Timestamping(t) == IF t = "stl-fixer.py" THEN {FALSE} ELSE BOOLEAN

Requests(t) ==
    [given : {TRUE}, path : RequestPaths(t), use_timestamp : Timestamping(t),
     input : InputPaths]
        \cup (IF t \in {"modules/image_to_stl.py", "ui/image_to_stl_tab.py"}
              THEN {}
              ELSE [given : {FALSE}, path : {<<>>},
                    use_timestamp : Timestamping(t), input : InputPaths])

last_sep(p) ==
    IF \E j \in 1..Len(p) : p[j] = "/"
    THEN CHOOSE j \in 1..Len(p) :
            p[j] = "/" /\ \A k \in (j + 1)..Len(p) : p[k] # "/"
    ELSE 0

\* os.path.basename
basename(p) == SubSeq(p, last_sep(p) + 1, Len(p))

\* os.path.dirname: the head, without its trailing separators unless it is
\* the root
dirname(p) ==
    LET head == SubSeq(p, 1, last_sep(p))
    IN  IF \A j \in 1..Len(head) : head[j] = "/" THEN head
        ELSE SubSeq(head, 1, Len(head) - 1)

\* os.path.splitext: (root, ext)
splitext(p) ==
    IF Len(basename(p)) > 1 /\ p[Len(p)] \in Extensions
    THEN <<SubSeq(p, 1, Len(p) - 1), <<p[Len(p)]>>>>
    ELSE <<p, <<>>>>

\* os.path.isabs
isabs(p) == Len(p) > 0 /\ p[1] = "/"

\* os.path.join(a, b)
join(a, b) ==
    IF isabs(b) THEN b
    ELSE IF a = <<>> \/ a[Len(a)] = "/" THEN a \o b
    ELSE a \o <<"/">> \o b

\* str.startswith
startswith(p, prefix) ==
    Len(p) >= Len(prefix) /\ SubSeq(p, 1, Len(prefix)) = prefix

\* str.endswith
endswith(p, suffix) ==
    Len(p) >= Len(suffix)
        /\ SubSeq(p, Len(p) - Len(suffix) + 1, Len(p)) = suffix

\* f"{base}_{timestamp}{ext}"
with_timestamp(base, ext) == base \o <<"_ts">> \o ext

\* a tool is called with an output argument
tool_call ==
    /\ pt_pc = "idle"
    /\ \E t \in Tools :
          /\ tool' = t
          /\ \E r \in Requests(t) : request' = r
    /\ pt_pc' = "adjust"
    /\ UNCHANGED <<output_path, written>>
    /\ UNCHANGED notPath

\* image-to-stl.py, main: the output path handed to image_to_stl
image_to_stl_main ==
    /\ pt_pc = "adjust"
    /\ tool = "image-to-stl.py"
    /\ LET output_dir == create_output_dir(tool)
           base_name == splitext(basename(request.input))[1]
           stamped == IF request.use_timestamp
                      THEN with_timestamp(splitext(request.path)[1],
                                          splitext(request.path)[2])
                      ELSE request.path
       IN  output_path' =
              IF ~request.given
              THEN join(output_dir,
                        (IF request.use_timestamp
                         THEN base_name \o <<"_ts">> ELSE base_name)
                            \o <<".stl">>)
              ELSE IF dirname(stamped) = <<>>
                   THEN join(output_dir, basename(stamped))
              ELSE IF ~startswith(stamped, output_dir)
                   THEN join(output_dir, basename(stamped))
              ELSE stamped
    /\ pt_pc' = "export"
    /\ UNCHANGED <<tool, request, written>>
    /\ UNCHANGED notPath

\* modules/image_to_stl.py, image_to_stl: the path is adjusted only if it is
\* a string that ends with ".stl"
image_to_stl_path(output_dir, path, use_timestamp) ==
    LET base_name == splitext(basename(path))[1]
        ext == splitext(basename(path))[2]
    IN  IF endswith(path, <<".stl">>)
        THEN join(output_dir,
                  (IF use_timestamp
                   THEN base_name \o <<"_ts">> ELSE base_name) \o ext)
        ELSE path

image_to_stl_module ==
    /\ pt_pc = "adjust"
    /\ tool = "modules/image_to_stl.py"
    /\ output_path' = image_to_stl_path(create_output_dir(tool), request.path,
                                        request.use_timestamp)
    /\ pt_pc' = "export"
    /\ UNCHANGED <<tool, request, written>>
    /\ UNCHANGED notPath

\* ui/image_to_stl_tab.py, _run_conversion: the call of image_to_stl names
\* every parameter except use_timestamp, which keeps its default
use_timestamp_default == FALSE

image_to_stl_tab ==
    /\ pt_pc = "adjust"
    /\ tool = "ui/image_to_stl_tab.py"
    /\ output_path' = image_to_stl_path(create_output_dir(tool), request.path,
                                        use_timestamp_default)
    /\ pt_pc' = "export"
    /\ UNCHANGED <<tool, request, written>>
    /\ UNCHANGED notPath

default_fixed_basename(input) ==
    splitext(basename(input))[1] \o <<"_fixed", ".stl">>
\* stl-fixer.py, command_line_interface: f"{base_name}_fixed.stl" with
\* base_name = os.path.splitext(args.input_file)[0]
default_fixed(input) ==
    splitext(input)[1] \o <<"_fixed", ".stl">>

\* stl-fixer.py, command_line_interface: the path handed to fix_stl, which
\* exports to it as it is
fixer_cli_output ==
    /\ pt_pc = "adjust"
    /\ tool = "stl-fixer.py"
    /\ output_path' = IF request.given THEN request.path
                      ELSE default_fixed(request.input)
    /\ pt_pc' = "export"
    /\ UNCHANGED <<tool, request, written>>
    /\ UNCHANGED notPath

\* stl-repair-tool.py: the default name chosen by main, then the head of
\* repair_mesh
repair_mesh_output ==
    /\ pt_pc = "adjust"
    /\ tool = "stl-repair-tool.py"
    /\ LET output_dir == create_output_dir(tool)
           output == IF ~request.given
                     THEN basename(splitext(request.input)[1])
                             \o <<"_repaired">> \o splitext(request.input)[2]
                     ELSE request.path
           stamped == IF request.use_timestamp
                      THEN with_timestamp(splitext(basename(output))[1],
                                          splitext(basename(output))[2])
                      ELSE output
       IN  output_path' = join(output_dir, basename(stamped))
    /\ pt_pc' = "export"
    /\ UNCHANGED <<tool, request, written>>
    /\ UNCHANGED notPath

\* modules/stl_repair.py, fix_stl: the head of the function
fix_stl_output ==
    /\ pt_pc = "adjust"
    /\ tool = "modules/stl_repair.py"
    /\ LET output_dir == create_output_dir(tool)
           joined == IF ~request.given
                     THEN join(output_dir,
                               splitext(basename(request.input))[1]
                                   \o <<"_repaired", ".stl">>)
                     ELSE join(output_dir, basename(request.path))
       IN  output_path' =
              IF request.use_timestamp
              THEN with_timestamp(splitext(joined)[1], splitext(joined)[2])
              ELSE joined
    /\ pt_pc' = "export"
    /\ UNCHANGED <<tool, request, written>>
    /\ UNCHANGED notPath

\* stl_mesh.save / mesh.export: the file appears at output_path, or the
\* call raises (the directory does not exist)
save_output ==
    /\ pt_pc = "export"
    /\ \/ written' = output_path /\ pt_pc' = "done"
       \/ pt_pc' = "failed" /\ UNCHANGED written
    /\ UNCHANGED <<tool, request, output_path>>
    /\ UNCHANGED notPath

NextPath ==
    \/ tool_call
    \/ image_to_stl_main
    \/ image_to_stl_module
    \/ image_to_stl_tab
    \/ fixer_cli_output
    \/ repair_mesh_output
    \/ fix_stl_output
    \/ save_output

SpecPath == Init /\ [][NextPath]_vars

\* C3: every tool that lands its result under output/<tool>/ writes it to
\* output/<tool-name>/<basename>: whatever directory the requested output
\* path names, the file is written directly inside the tool's own directory.
C3_WrittenInsideToolDirectory ==
    (written # <<>> /\ tool \in OutputDirTools) =>
        /\ dirname(written) = create_output_dir(tool)
        /\ written = join(create_output_dir(tool), basename(written))

\* the stem of a file name carries the timestamp as its last part
timestamped(p) ==
    LET stem == splitext(basename(p))[1]
    IN  Len(stem) > 0 /\ stem[Len(stem)] = "_ts"

\* C14: whenever timestamping is requested, by flag or by checkbox, the
\* name of the written STL file has the timestamp immediately before the
\* extension; when it is not requested the name has no timestamp.
C14_TimestampIffRequested ==
    written # <<>> =>
        /\ request.use_timestamp => timestamped(written)
        /\ ~request.use_timestamp
              => \A j \in 1..Len(written) : written[j] # "_ts"

no_output_given ==
    written # <<>> /\ ~request.given

no_worker(message) ==
    /\ status_var' = message
    /\ gui_pc' = "done"
    /\ UNCHANGED worker

\* self.status_var.set(...); threading.Thread(...).start()
start_worker(progress) ==
    /\ status_var' = progress
    /\ gui_pc' = "worker"
    /\ worker' = "running"

\* the worker's target function returns
worker_returns(message) ==
    /\ status_var' = message
    /\ worker' = "finished"
    /\ gui_pc' = "done"

\* an exception leaves the worker's target function
worker_dies ==
    /\ worker' = "died"
    /\ gui_pc' = "done"
    /\ UNCHANGED status_var

\* stl-fixer.py, STLFixerGUI.validate_stl
STLFixerGUI_validate_stl ==
    /\ gui_pc = "idle"
    /\ surface' = "stl-fixer"
    /\ operation' = "validate"
    /\ \E f \in Fields :
          /\ fields' = f
          /\ IF ~f.input
             THEN no_worker("Bitte waehle eine Eingabedatei aus.")
             ELSE start_worker("Validiere...")
    /\ UNCHANGED outcome
    /\ UNCHANGED notGui

\* stl-fixer.py, STLFixerGUI._validate_thread: no try block; validate_stl
\* handles its own exceptions
validate_thread ==
    /\ gui_pc = "worker"
    /\ surface = "stl-fixer"
    /\ operation = "validate"
    /\ \E r \in {"True", "False"} :
          /\ outcome' = r
          /\ worker_returns(IF r = "True"
                            THEN "Validierung abgeschlossen: Datei ist gueltig"
                            ELSE "Validierung abgeschlossen: Probleme gefunden")
    /\ UNCHANGED <<surface, operation, fields>>
    /\ UNCHANGED notGui

\* stl-fixer.py, STLFixerGUI.fix_stl: the timeout entry is not looked at
STLFixerGUI_fix_stl ==
    /\ gui_pc = "idle"
    /\ surface' = "stl-fixer"
    /\ operation' = "run"
    /\ \E f \in Fields :
          IF ~f.input
          THEN /\ fields' = f
               /\ no_worker("Bitte waehle eine Eingabedatei aus.")
          ELSE /\ fields' = [f EXCEPT !.output = TRUE]
               /\ start_worker("Repariere...")
    /\ UNCHANGED outcome
    /\ UNCHANGED notGui

\* int(self.timeout_var.get()): any integer literal is accepted
timeout_parses(f) == f.numeric # "not_a_number"

\* stl-fixer.py, STLFixerGUI._fix_thread: the entries are read before the
\* try block is entered
fix_thread ==
    /\ gui_pc = "worker"
    /\ surface = "stl-fixer"
    /\ operation = "run"
    /\ IF ~timeout_parses(fields)
       THEN worker_dies /\ UNCHANGED outcome
       ELSE \E r \in {"True", "False", "raised"} :
               /\ outcome' = r
               /\ worker_returns(IF r = "True"
                                 THEN "Reparatur erfolgreich abgeschlossen"
                                 ELSE "Reparatur fehlgeschlagen")
    /\ UNCHANGED <<surface, operation, fields>>
    /\ UNCHANGED notGui

\* stl-reducer.py, reduce_stl: both numeric entries are parsed and range
\* checked before the thread is started
STLReducerGUI_reduce_stl ==
    /\ gui_pc = "idle"
    /\ surface' = "stl-reducer"
    /\ operation' = "run"
    /\ \E f \in Fields :
          IF ~f.input
          THEN /\ fields' = f
               /\ no_worker("Bitte waehle eine Eingabedatei aus.")
          ELSE /\ fields' = [f EXCEPT !.output = TRUE]
               /\ CASE f.numeric = "not_a_number" ->
                         no_worker("Bitte gib einen gueltigen Wert ein.")
                    [] f.numeric = "out_of_range" ->
                         no_worker("Der Wert liegt ausserhalb des Bereichs.")
                    [] f.numeric = "valid" ->
                         start_worker("Reduziere STL...")
    /\ UNCHANGED outcome
    /\ UNCHANGED notGui

\* stl-reducer.py, _reduce_thread
reduce_thread ==
    /\ gui_pc = "worker"
    /\ surface = "stl-reducer"
    /\ \E r \in {"stats", "None", "raised"} :
          /\ outcome' = r
          /\ worker_returns(IF r = "stats"
                            THEN "Reduktion abgeschlossen"
                            ELSE "Reduktion fehlgeschlagen")
    /\ UNCHANGED <<surface, operation, fields>>
    /\ UNCHANGED notGui

\* ui/image_to_stl_tab.py, convert_image: the IntVar / DoubleVar entries
\* are read inside a try block; a Tcl error becomes a status message
convert_image ==
    /\ gui_pc = "idle"
    /\ surface' = "image_to_stl_tab"
    /\ operation' = "run"
    /\ \E f \in Fields :
          /\ fields' = f
          /\ IF ~f.input
             THEN no_worker("Fehler: Keine Eingabedatei ausgewaehlt")
             ELSE IF ~f.output
             THEN no_worker("Fehler: Keine Ausgabedatei angegeben")
             ELSE IF f.numeric = "not_a_number"
             THEN \E m \in {"Fehler: Ungueltiger Wert",
                            "Fehler bei der Eingabevalidierung"} :
                     no_worker(m)
             ELSE start_worker("Konvertiere Bild zu STL...")
    /\ UNCHANGED outcome
    /\ UNCHANGED notGui

\* ui/image_to_stl_tab.py, _run_conversion_wrapper and _run_conversion
run_conversion ==
    /\ gui_pc = "worker"
    /\ surface = "image_to_stl_tab"
    /\ \E r \in {"path", "raised"} :
          /\ outcome' = r
          /\ worker_returns(IF r = "path"
                            THEN "Konvertierung abgeschlossen"
                            ELSE "Fehler bei der Konvertierung")
    /\ UNCHANGED <<surface, operation, fields>>
    /\ UNCHANGED notGui

\* ui/stl_repair_tab.py, validate_stl_file
validate_stl_file ==
    /\ gui_pc = "idle"
    /\ surface' = "stl_repair_tab"
    /\ operation' = "validate"
    /\ \E f \in Fields :
          /\ fields' = f
          /\ IF ~f.input
             THEN no_worker("Fehler: Keine Eingabedatei ausgewaehlt")
             ELSE start_worker("Validiere STL-Datei...")
    /\ UNCHANGED outcome
    /\ UNCHANGED notGui

\* ui/stl_repair_tab.py, _run_validation
run_validation ==
    /\ gui_pc = "worker"
    /\ surface = "stl_repair_tab"
    /\ operation = "validate"
    /\ \E r \in {"True", "False", "raised"} :
          /\ outcome' = r
          /\ worker_returns(
                CASE r = "True" -> "Validierung abgeschlossen: Datei ist gueltig"
                  [] r = "False" -> "Validierung abgeschlossen: Probleme gefunden"
                  [] r = "raised" -> "Fehler bei der Validierung")
    /\ UNCHANGED <<surface, operation, fields>>
    /\ UNCHANGED notGui

\* ui/stl_repair_tab.py, repair_stl: the IntVar entries are read inside a
\* try block before the thread is started
repair_stl ==
    /\ gui_pc = "idle"
    /\ surface' = "stl_repair_tab"
    /\ operation' = "run"
    /\ \E f \in Fields :
          IF ~f.input
          THEN /\ fields' = f
               /\ no_worker("Fehler: Keine Eingabedatei ausgewaehlt")
          ELSE /\ fields' = [f EXCEPT !.output = TRUE]
               /\ IF f.numeric = "not_a_number"
                  THEN no_worker("Fehler bei der Eingabevalidierung")
                  ELSE start_worker("Repariere STL-Datei...")
    /\ UNCHANGED outcome
    /\ UNCHANGED notGui

\* ui/stl_repair_tab.py, _run_repair
run_repair ==
    /\ gui_pc = "worker"
    /\ surface = "stl_repair_tab"
    /\ operation = "run"
    /\ \E r \in {"path", "raised"} :
          /\ outcome' = r
          /\ worker_returns(IF r = "path"
                            THEN "Reparatur erfolgreich abgeschlossen"
                            ELSE "Fehler bei der Reparatur")
    /\ UNCHANGED <<surface, operation, fields>>
    /\ UNCHANGED notGui

NextGui ==
    \/ STLFixerGUI_validate_stl
    \/ validate_thread
    \/ STLFixerGUI_fix_stl
    \/ fix_thread
    \/ STLReducerGUI_reduce_stl
    \/ reduce_thread
    \/ convert_image
    \/ run_conversion
    \/ validate_stl_file
    \/ run_validation
    \/ repair_stl
    \/ run_repair

SpecGui == Init /\ [][NextGui]_vars

InProgress ==
    {"Validiere...", "Repariere...", "Reduziere STL...",
     "Konvertiere Bild zu STL...", "Validiere STL-Datei...",
     "Repariere STL-Datei..."}

\* C6: every error of a GUI worker is caught inside the worker and shown in
\* the status line: no worker thread dies of an exception, and once the
\* worker has terminated the status line no longer shows the in-progress
\* message.
C6_WorkerErrorsReachStatusLine ==
    /\ worker # "died"
    /\ worker \in {"finished", "died"} => status_var \notin InProgress

\* C7: a click on a run button while a numeric entry does not hold a number
\* sets a status message and starts no worker thread.
C7_InvalidNumberStartsNoWorker ==
    (gui_pc # "idle" /\ operation = "run" /\ fields.input
        /\ fields.numeric = "not_a_number")
        => (worker = "none" /\ status_var \notin InProgress
              /\ status_var # "Bereit")

(***************************************************************************)
(* image_to_stl, in its two copies: the script image-to-stl.py and the     *)
(* module modules/image_to_stl.py.  The mesh is described by the path that *)
(* built it and by the size of the height map it was built from; the       *)
(* rotations are followed on one vertex, as they act on every vertex       *)
(* separately.                                                             *)
(***************************************************************************)
\* bordered_height_map: border cells on every side
padded(g, border) ==
    [rows |-> g.rows + 2 * border, cols |-> g.cols + 2 * border]

\* the full grid: top surface, flat bottom, four side walls
grid_mesh(g) ==
    [kind |-> "grid", rows |-> g.rows, cols |-> g.cols,
     parts |-> {"top", "bottom", "walls"}]

\* measure.marching_cubes on the masked volume
isosurface_mesh(g) ==
    [kind |-> "isosurface", rows |-> g.rows, cols |-> g.cols,
     parts |-> {"surface"}]

\* the script's extrusion of the masked region
extrusion_mesh(g) ==
    [kind |-> "extrusion", rows |-> g.rows, cols |-> g.cols,
     parts |-> {"top", "bottom", "walls"}]

Coords == 0..MaxCoord

\* rotate_x without the copy of the Y column
rotate_x_no_copy(v) == <<v[1], v[3], -v[3]>>
\* "if rotate_x": Y = Z, Z = -Y
rotate_x(v) == <<v[1], v[3], -v[2]>>

\* "if rotate_y": X = Z, Z = -X
rotate_y(v) == <<v[3], v[2], -v[1]>>

\* "if rotate_z": X = Y, Y = -X
rotate_z(v) == <<v[2], -v[1], v[3]>>

\* the imports, the image is loaded, resized and turned into a height map
image_to_stl_call ==
    /\ im_pc = "idle"
    /\ \E o \in ImageOpts :
          /\ im_opts' = o
          /\ object_only' = o.object_only
          /\ grid' = [rows |-> o.rows, cols |-> o.cols]
          /\ im_log' =
                (IF ~o.has_scipy
                 THEN {"WARNUNG: SciPy nicht installiert"} ELSE {})
                \cup (IF o.object_only /\ ~o.has_skimage
                      THEN {"WARNUNG: scikit-image nicht installiert"}
                      ELSE {})
    /\ im_pc' = "border"
    /\ UNCHANGED <<object_mask, im_mesh, vertices0, vertices>>
    /\ UNCHANGED notImage

\* "if border > 0 and not object_only"
image_border ==
    /\ im_pc = "border"
    /\ grid' = IF im_opts.border > 0 /\ ~object_only
               THEN padded(grid, im_opts.border) ELSE grid
    /\ im_pc' = "mask"
    /\ UNCHANGED <<im_opts, object_only, object_mask, im_mesh, im_log,
                   vertices0, vertices>>
    /\ UNCHANGED notImage

\* the object mask.  The module computes it "if object_only and has_scipy";
\* the script imports scipy.ndimage again, outside any try block.
image_mask ==
    /\ im_pc = "mask"
    /\ IF im_opts.engine = "modules/image_to_stl.py"
       THEN /\ object_mask' = (object_only /\ im_opts.has_scipy)
            /\ im_pc' = "mesh"
       ELSE IF object_only /\ ~im_opts.has_scipy
            THEN im_pc' = "raised" /\ UNCHANGED object_mask
            ELSE object_mask' = object_only /\ im_pc' = "mesh"
    /\ UNCHANGED <<im_opts, object_only, grid, im_mesh, im_log, vertices0,
                   vertices>>
    /\ UNCHANGED notImage

\* the vertex and face lists
image_mesh ==
    /\ im_pc = "mesh"
    /\ IF im_opts.engine = "modules/image_to_stl.py"
       THEN IF object_only /\ im_opts.has_skimage /\ object_mask
            THEN /\ im_mesh' = isosurface_mesh(grid)
                 /\ UNCHANGED <<object_only, im_log>>
            ELSE /\ object_only' = FALSE
                 /\ im_log' = im_log \cup
                       (IF object_only
                        THEN {"Object-only-Modus deaktiviert"} ELSE {})
                 /\ im_mesh' = grid_mesh(grid)
       ELSE /\ UNCHANGED object_only
            /\ IF object_only
               THEN IF im_opts.has_skimage
                    THEN /\ im_mesh' = isosurface_mesh(grid)
                         /\ UNCHANGED im_log
                    ELSE \* except ImportError: the extrusion
                         /\ im_mesh' = extrusion_mesh(grid)
                         /\ im_log' = im_log \cup
                               {"WARNUNG: scikit-image nicht installiert"}
               ELSE /\ im_mesh' = grid_mesh(grid)
                    /\ UNCHANGED im_log
    /\ im_pc' = "array"
    /\ UNCHANGED <<im_opts, grid, object_mask, vertices0, vertices>>
    /\ UNCHANGED notImage

\* vertices = np.array(vertices, dtype=np.float32)
image_array ==
    /\ im_pc = "array"
    /\ \E x \in Coords, y \in Coords, z \in Coords :
          /\ vertices0' = <<x, y, z>>
          /\ vertices' = <<x, y, z>>
    /\ im_pc' = "rotate_x"
    /\ UNCHANGED <<im_opts, object_only, grid, object_mask, im_mesh, im_log>>
    /\ UNCHANGED notImage

image_rotate_x ==
    /\ im_pc = "rotate_x"
    /\ vertices' = IF im_opts.rotate_x THEN rotate_x(vertices) ELSE vertices
    /\ im_pc' = "rotate_y"
    /\ UNCHANGED <<im_opts, object_only, grid, object_mask, im_mesh, im_log,
                   vertices0>>
    /\ UNCHANGED notImage

image_rotate_y ==
    /\ im_pc = "rotate_y"
    /\ vertices' = IF im_opts.rotate_y THEN rotate_y(vertices) ELSE vertices
    /\ im_pc' = "rotate_z"
    /\ UNCHANGED <<im_opts, object_only, grid, object_mask, im_mesh, im_log,
                   vertices0>>
    /\ UNCHANGED notImage

image_rotate_z ==
    /\ im_pc = "rotate_z"
    /\ vertices' = IF im_opts.rotate_z THEN rotate_z(vertices) ELSE vertices
    /\ im_pc' = "save"
    /\ UNCHANGED <<im_opts, object_only, grid, object_mask, im_mesh, im_log,
                   vertices0>>
    /\ UNCHANGED notImage

\* the STL mesh is filled and saved
image_save ==
    /\ im_pc = "save"
    /\ \/ im_pc' = "done"
       \/ im_pc' = "raised"
    /\ UNCHANGED <<im_opts, object_only, grid, object_mask, im_mesh, im_log,
                   vertices0, vertices>>
    /\ UNCHANGED notImage

NextImage ==
    \/ image_to_stl_call
    \/ image_border
    \/ image_mask
    \/ image_mesh
    \/ image_array
    \/ image_rotate_x
    \/ image_rotate_y
    \/ image_rotate_z
    \/ image_save

SpecImage == Init /\ [][NextImage]_vars

mesh_built == im_pc \in {"array", "rotate_x", "rotate_y", "rotate_z", "save", "done"}

\* C13: when object_only is requested and the isosurface capability is
\* missing, object_only is switched off with a logged warning and the mesh
\* is exactly the full-grid mesh that the same parameters give with
\* object_only = false: top surface over the border-padded height map,
\* bottom plane and side walls.
C13_FallbackIsFullGridMesh ==
    (mesh_built /\ im_opts.object_only /\ ~im_opts.has_skimage)
        => /\ ~object_only
           /\ im_log \cap {"Object-only-Modus deaktiviert",
                           "WARNUNG: scikit-image nicht installiert"} # {}
           /\ im_mesh = grid_mesh(padded([rows |-> im_opts.rows,
                                          cols |-> im_opts.cols],
                                         im_opts.border))

rotations_done == im_pc \in {"save", "done"}

\* C19: the requested 90 degree rotations are applied one after the other
\* in the order x, y, z, each to the coordinates the previous one left;
\* rotate_x together with rotate_z alone maps a vertex (x, y, z) to
\* (z, -x, -y), the composition of (y,z)=(z,-y) followed by (x,y)=(y,-x).
C19_RotationsComposeInOrder ==
    rotations_done =>
        LET v0 == vertices0
            a == IF im_opts.rotate_x THEN <<v0[1], v0[3], -v0[2]>> ELSE v0
            b == IF im_opts.rotate_y THEN <<a[3], a[2], -a[1]>> ELSE a
            c == IF im_opts.rotate_z THEN <<b[2], -b[1], b[3]>> ELSE b
        IN  /\ vertices = c
            /\ (im_opts.rotate_x /\ ~im_opts.rotate_y /\ im_opts.rotate_z)
                  => vertices = <<v0[3], -v0[1], -v0[2]>>

C19_Witness ==
    /\ im_pc = "done"
    /\ im_opts.rotate_x /\ ~im_opts.rotate_y /\ im_opts.rotate_z
    /\ vertices0 = <<1, 2, 0>>
    /\ vertices = <<0, -1, -2>>

(***************************************************************************)
(* The stand-alone GUIs of stl-fixer.py and stl-reducer.py: the Tk         *)
(* variables behind the widgets, the button handlers running on the main   *)
(* loop, and the worker thread each handler starts.  The main loop keeps   *)
(* serving the user's events while the worker runs.                        *)
(***************************************************************************)
JobSurfaces == {"stl-fixer.py", "stl-reducer.py"}

TimeoutEntries == 1..MaxTimeout
ReductionEntries == {5, 10}
SmoothEntries == 0..MaxSmooth
MethodEntries == {"basic", "quadric"}

\* the widgets as __init__ leaves them, with a file already chosen
tk_defaults(s) ==
    IF s = "stl-fixer.py"
    THEN [input_entry |-> "part.stl", output_entry |-> "",
          verbose_var |-> TRUE, aggressive_var |-> TRUE, clean_var |-> TRUE,
          timeout_var |-> MaxTimeout]
    ELSE [input_entry |-> "part.stl", output_entry |-> "",
          reduction_var |-> 5, smooth_var |-> 0, method_var |-> "basic",
          preserve_boundary_var |-> TRUE, verbose_var |-> TRUE,
          timestamp_var |-> FALSE]

\* what the user can put into a widget
widget_values(w) ==
    CASE w = "input_entry" -> {"", "part.stl"}
      [] w = "output_entry" -> {"", "out.stl"}
      [] w = "timeout_var" -> TimeoutEntries
      [] w = "reduction_var" -> ReductionEntries
      [] w = "smooth_var" -> SmoothEntries
      [] w = "method_var" -> MethodEntries
      [] OTHER -> BOOLEAN

\* the name the handler gives a missing output: the input without its
\* extension, then the suffix of the tool
default_output(s) ==
    IF s = "stl-fixer.py" THEN "part_fixed.stl" ELSE "part_reduced.stl"

gui_open ==
    /\ jb_pc = "closed"
    /\ \E s \in JobSurfaces :
          /\ jb_surface' = s
          /\ tkvars' = tk_defaults(s)
    /\ jb_pc' = "idle"
    /\ UNCHANGED <<clicked, thread_args, job, edits>>
    /\ UNCHANGED notJob

\* the main loop serves a user event: one widget gets a new value
user_edit ==
    /\ \/ jb_pc = "idle"
       \/ jb_pc \in {"started", "dispatched"} /\ edits < MaxEdits
    /\ edits' = IF jb_pc = "idle" THEN edits ELSE edits + 1
    /\ \E w \in DOMAIN tkvars : \E v \in widget_values(w) :
          /\ v # tkvars[w]
          /\ tkvars' = [tkvars EXCEPT ![w] = v]
    /\ UNCHANGED <<jb_pc, jb_surface, clicked, thread_args, job>>
    /\ UNCHANGED notJob

\* the output entry after the handler has filled in a missing name
with_output(t, s) ==
    IF t.output_entry = ""
    THEN [t EXCEPT !.output_entry = default_output(s)]
    ELSE t

\* STLFixerGUI.fix_stl: the handler of the button
fix_button ==
    /\ jb_pc = "idle"
    /\ jb_surface = "stl-fixer.py"
    /\ tkvars.input_entry # ""
    /\ tkvars' = with_output(tkvars, jb_surface)
    /\ clicked' = tkvars'
    /\ thread_args' = [input_file |-> tkvars.input_entry,
                       output_file |-> tkvars'.output_entry]
    /\ jb_pc' = "started"
    /\ UNCHANGED <<jb_surface, job, edits>>
    /\ UNCHANGED notJob

\* STLFixerGUI._fix_thread up to its call of fix_stl
fix_thread_reads ==
    /\ jb_pc = "started"
    /\ jb_surface = "stl-fixer.py"
    /\ job' = [input_file |-> thread_args.input_file,
               output_file |-> thread_args.output_file,
               verbose |-> tkvars.verbose_var,
               aggressive |-> tkvars.aggressive_var,
               clean |-> tkvars.clean_var,
               timeout |-> tkvars.timeout_var]
    /\ jb_pc' = "dispatched"
    /\ UNCHANGED <<jb_surface, tkvars, clicked, thread_args, edits>>
    /\ UNCHANGED notJob

\* STLReducerGUI.reduce_stl: the handler of the button
reduce_button ==
    /\ jb_pc = "idle"
    /\ jb_surface = "stl-reducer.py"
    /\ tkvars.input_entry # ""
    /\ tkvars' = with_output(tkvars, jb_surface)
    /\ clicked' = tkvars'
    /\ thread_args' = [input_file |-> tkvars.input_entry,
                       output_file |-> tkvars'.output_entry,
                       reduction_factor |-> tkvars.reduction_var,
                       smooth_iterations |-> tkvars.smooth_var]
    /\ jb_pc' = "started"
    /\ UNCHANGED <<jb_surface, job, edits>>
    /\ UNCHANGED notJob

\* STLReducerGUI._reduce_thread up to its call of reduce_mesh_size
reduce_thread_reads ==
    /\ jb_pc = "started"
    /\ jb_surface = "stl-reducer.py"
    /\ job' = [input_file |-> thread_args.input_file,
               output_file |-> thread_args.output_file,
               reduction_factor |-> thread_args.reduction_factor,
               smooth_iterations |-> thread_args.smooth_iterations,
               verbose |-> tkvars.verbose_var,
               preserve_boundary |-> tkvars.preserve_boundary_var,
               use_timestamp |-> tkvars.timestamp_var,
               method |-> tkvars.method_var]
    /\ jb_pc' = "dispatched"
    /\ UNCHANGED <<jb_surface, tkvars, clicked, thread_args, edits>>
    /\ UNCHANGED notJob

\* the engine returns and the worker thread ends
job_returns ==
    /\ jb_pc = "dispatched"
    /\ jb_pc' = "idle"
    /\ clicked' = NoTkVars
    /\ thread_args' = NoJob
    /\ job' = NoJob
    /\ edits' = 0
    /\ UNCHANGED <<jb_surface, tkvars>>
    /\ UNCHANGED notJob

NextJob ==
    \/ gui_open
    \/ user_edit
    \/ fix_button
    \/ fix_thread_reads
    \/ reduce_button
    \/ reduce_thread_reads
    \/ job_returns

SpecJob == Init /\ [][NextJob]_vars

\* the parameter record of a click, as the engine would receive it
click_record ==
    IF jb_surface = "stl-fixer.py"
    THEN [input_file |-> clicked.input_entry,
          output_file |-> clicked.output_entry,
          verbose |-> clicked.verbose_var,
          aggressive |-> clicked.aggressive_var,
          clean |-> clicked.clean_var,
          timeout |-> clicked.timeout_var]
    ELSE [input_file |-> clicked.input_entry,
          output_file |-> clicked.output_entry,
          reduction_factor |-> clicked.reduction_var,
          smooth_iterations |-> clicked.smooth_var,
          verbose |-> clicked.verbose_var,
          preserve_boundary |-> clicked.preserve_boundary_var,
          use_timestamp |-> clicked.timestamp_var,
          method |-> clicked.method_var]

\* C16: the parameter record of a GUI job is fixed at the click: the
\* parameters the dispatched job runs with are the values the fields and
\* checkboxes had when the button was pressed, whatever is changed later.
C16_JobRunsWithClickedParameters ==
    jb_pc = "dispatched" => job = click_record

\* what the click does fix: the paths, and for the reducer the two numbers
C16_ThreadArgumentsAreFixedAtClick ==
    jb_pc = "dispatched" =>
        /\ job.input_file = clicked.input_entry
        /\ job.output_file = clicked.output_entry
        /\ jb_surface = "stl-reducer.py"
              => /\ job.reduction_factor = clicked.reduction_var
                 /\ job.smooth_iterations = clicked.smooth_var

(***************************************************************************)
(* The unified application (stl3d-gui/app.py): the notebook with its four  *)
(* tabs, the log panel sys.stdout is redirected to, the virtual events     *)
(* <<NotebookTabChanged>> waiting in the Tk event queue, and the entries   *)
(* that drag-and-drop and File > Open fill in.                             *)
(***************************************************************************)
TabIndices == 0..3

\* on_tab_change: the log widget chosen for a tab index
tab_log_first(tab_idx) == "image_to_stl.log_text"
tab_log(tab_idx) ==
    CASE tab_idx = 0 -> "image_to_stl.log_text"
      [] tab_idx = 1 -> "contour_crafting.log_text"
      [] tab_idx = 2 -> "topographic.log_text"
      [] tab_idx = 3 -> "stl_repair.log_text"

\* the files a user drops or opens, as <<name, extension>>
DroppedFiles ==
    {<<"photo", ".png">>, <<"Scan", ".JPG">>, <<"part", ".stl">>,
     <<"Part", ".STL">>, <<"notes", ".txt">>}

\* str.lower
lower_token(t) ==
    CASE t = "Scan" -> "scan"
      [] t = ".JPG" -> ".jpg"
      [] t = "Part" -> "part"
      [] t = ".STL" -> ".stl"
      [] OTHER -> t

lower(p) == [j \in DOMAIN p |-> lower_token(p[j])]

ImageExtensions == {".jpg", ".jpeg", ".png", ".bmp", ".gif", ".tiff"}

\* the tab a file belongs to, by the extension of its lower-cased path;
\* -1 when it belongs to none
tab_of(file_path) ==
    LET extension == lower(file_path)[2]
    IN  IF extension \in ImageExtensions THEN 0
        ELSE IF extension = ".stl" THEN 3
        ELSE -1

\* ttk.Notebook.select(tab_idx): the event is queued only when the
\* selection changes
events_after_select(tab_idx) ==
    IF tab_idx # current_tab THEN tab_events + 1 ELSE tab_events

\* STL3DApp.create_tabs: the first tab added becomes the selected one, which
\* queues an event; stdout goes to the log of the image tab; the handler is
\* bound before the main loop serves the queue
create_tabs ==
    /\ app_pc = "init"
    /\ current_tab' = 0
    /\ stdout_target' = "image_to_stl.log_text"
    /\ tab_events' = 1
    /\ app_pc' = "running"
    /\ UNCHANGED <<image_entries, repair_entries, app_status>>
    /\ UNCHANGED <<app_worker, printed_to>>
    /\ UNCHANGED notApp

\* the user clicks on a tab
user_selects_tab ==
    /\ app_pc = "running"
    /\ tab_events < MaxTabEvents
    /\ \E tab_idx \in TabIndices :
          /\ tab_idx # current_tab
          /\ current_tab' = tab_idx
          /\ tab_events' = events_after_select(tab_idx)
    /\ UNCHANGED <<app_pc, stdout_target, image_entries, repair_entries,
                   app_status>>
    /\ UNCHANGED <<app_worker, printed_to>>
    /\ UNCHANGED notApp

\* on_tab_change, bound to <<NotebookTabChanged>>
on_tab_change ==
    /\ app_pc = "running"
    /\ tab_events > 0
    /\ stdout_target' = tab_log(current_tab)
    /\ tab_events' = tab_events - 1
    /\ UNCHANGED <<app_pc, current_tab, image_entries, repair_entries,
                   app_status>>
    /\ UNCHANGED <<app_worker, printed_to>>
    /\ UNCHANGED notApp

\* the tab selection and the entries after a file of the given path has
\* been taken; entered is the path put into the input entry
load_into_tab(file_path, entered) ==
    LET tab_idx == tab_of(file_path)
        base_name == entered[1]
    IN  /\ current_tab' = IF tab_idx = -1 THEN current_tab ELSE tab_idx
        /\ tab_events' = IF tab_idx = -1 THEN tab_events
                         ELSE events_after_select(tab_idx)
        /\ image_entries' =
              IF tab_idx = 0
              THEN [input_entry |-> entered,
                    output_entry |-> <<base_name, ".stl">>]
              ELSE image_entries
        /\ repair_entries' =
              IF tab_idx = 3
              THEN [input_entry |-> entered,
                    output_entry |-> <<base_name, "_repaired", ".stl">>]
              ELSE repair_entries

\* setup_drag_drop.handle_drop with a non-empty list of files
handle_drop(file_path) ==
    /\ app_pc = "running"
    /\ tab_events < MaxTabEvents
    /\ load_into_tab(file_path, file_path)
    /\ app_status' = "Datei geladen"
    /\ UNCHANGED <<app_pc, stdout_target>>
    /\ UNCHANGED <<app_worker, printed_to>>
    /\ UNCHANGED notApp

\* STL3DApp.open_file with a file chosen in the dialog
open_file(filename) ==
    /\ app_pc = "running"
    /\ tab_events < MaxTabEvents
    /\ load_into_tab(filename, lower(filename))
    /\ app_status' = IF tab_of(filename) = -1
                     THEN "Datei wird geladen..."
                     ELSE "Datei geladen"
    /\ UNCHANGED <<app_pc, stdout_target>>
    /\ UNCHANGED <<app_worker, printed_to>>
    /\ UNCHANGED notApp

\* the action button of the selected tab (convert_image,
\* create_topographic_model, ...): the handler starts the worker thread
tab_button ==
    /\ app_pc = "running"
    /\ app_worker = -1
    /\ app_worker' = current_tab
    /\ printed_to' = {}
    /\ UNCHANGED <<app_pc, current_tab, stdout_target, tab_events,
                   image_entries, repair_entries, app_status>>
    /\ UNCHANGED notApp

\* a print(...) of the worker: the text goes to whatever sys.stdout is at
\* that moment
worker_print ==
    /\ app_worker # -1
    /\ printed_to' = printed_to \cup {stdout_target}
    /\ UNCHANGED <<app_pc, current_tab, stdout_target, tab_events,
                   image_entries, repair_entries, app_status, app_worker>>
    /\ UNCHANGED notApp

\* the worker function returns
tab_worker_returns ==
    /\ app_worker # -1
    /\ app_worker' = -1
    /\ app_status' = "abgeschlossen"
    /\ UNCHANGED <<app_pc, current_tab, stdout_target, tab_events,
                   image_entries, repair_entries, printed_to>>
    /\ UNCHANGED notApp

NextApp ==
    \/ create_tabs
    \/ user_selects_tab
    \/ on_tab_change
    \/ \E file_path \in DroppedFiles : handle_drop(file_path)
    \/ \E filename \in DroppedFiles : open_file(filename)
    \/ tab_button
    \/ worker_print
    \/ tab_worker_returns

SpecApp == Init /\ [][NextApp]_vars

\* the log panel that belongs to the selected tab
LogPanels ==
    <<"image_to_stl.log_text", "contour_crafting.log_text",
      "topographic.log_text", "stl_repair.log_text">>

\* C17: in the unified application, at startup and after every tab-change
\* event (raised by the user, by drag-and-drop or by File > Open), stdout
\* is redirected to the log panel of the active tab: the step that builds
\* the tabs and every step that handles a tab-change event leave stdout on
\* the panel of the selected tab, and whenever no such event is waiting to
\* be handled stdout is on that panel.
C17_StdoutTargetsActiveTab ==
    /\ []((app_pc = "running" /\ tab_events = 0)
             => stdout_target = LogPanels[current_tab + 1])
    /\ [][(create_tabs \/ on_tab_change)
             => stdout_target' = LogPanels[current_tab' + 1]]_vars

C17_Witness ==
    /\ app_pc = "running"
    /\ tab_events = 0
    /\ current_tab = 3
    /\ stdout_target = "stl_repair.log_text"
    /\ repair_entries.input_entry = <<"Part", ".STL">>

(***************************************************************************)
(* extract_contours (contour-crafting.py and modules/contour_crafting.py): *)
(* the photo-mode branch, the adaptive-threshold branch and the fallback   *)
(* branch.  An image is described by what the tracing finds in it: for     *)
(* each photo-mode threshold, how many contours have at least five points  *)
(* and an area inside (100, half the image).  A contour is recorded as the *)
(* branch that produced it and the numerator of its height.                *)
(***************************************************************************)
ContourOpts ==
    UNION {[is_photo : BOOLEAN, num_contours : {n},
            found : [1..n -> 0..MaxPerLevel]] : n \in 1..MaxLevels}

\* "Nur gleichmäßig verteilte Konturen hinzufügen": i is the index of the
\* threshold, n the number of contours kept so far
evenly_spread_even_only(i, n) == i % 2 = 0
evenly_spread(i, n) == i % 2 = 0 \/ n < 5

\* the inner loop of the photo branch over the k filtered contours of
\* threshold i
RECURSIVE append_filtered(_, _, _)
append_filtered(all, i, k) ==
    IF k = 0 THEN all
    ELSE append_filtered(
            IF evenly_spread(i, Len(all))
            THEN Append(all, [branch |-> "photo", height |-> i + 1])
            ELSE all,
            i, k - 1)

\* the contours a branch without a spreading rule returns: k of them
branch_contours(branch, k) ==
    [j \in 1..k |-> [branch |-> branch, height |-> j]]

extract_contours_call ==
    /\ cc_pc = "idle"
    /\ \E o \in ContourOpts :
          /\ cc_opts' = o
          /\ cc_pc' = IF o.is_photo THEN "photo" ELSE "adaptive"
    /\ cc_level' = 0
    /\ contours_all' = <<>>
    /\ UNCHANGED <<filtered_contours, evaluated, cc_log, cc_result>>
    /\ UNCHANGED notContour

\* one pass of "for i, threshold in enumerate(thresholds)"
photo_threshold ==
    /\ cc_pc = "photo"
    /\ cc_level < cc_opts.num_contours
    /\ contours_all' = append_filtered(contours_all, cc_level,
                                       cc_opts.found[cc_level + 1])
    /\ cc_level' = cc_level + 1
    /\ evaluated' = evaluated \cup {"photo"}
    /\ UNCHANGED <<cc_pc, cc_opts, filtered_contours, cc_log, cc_result>>
    /\ UNCHANGED notContour

\* after the loop: the print and "if len(contours_all) >= 3: return"
photo_end ==
    /\ cc_pc = "photo"
    /\ cc_level = cc_opts.num_contours
    /\ cc_log' = cc_log \cup {"Photo-Modus ergab Konturen"}
    /\ evaluated' = evaluated \cup {"photo"}
    /\ IF Len(contours_all) >= 3
       THEN /\ cc_result' = contours_all
            /\ cc_pc' = "returned"
       ELSE /\ cc_result' = cc_result
            /\ cc_pc' = "adaptive"
    /\ UNCHANGED <<cc_opts, cc_level, contours_all, filtered_contours>>
    /\ UNCHANGED notContour

\* "for i, contour in enumerate(filtered_contours): if len(contour) >= 5":
\* long is the set of the positions (from 1) of the contours with at least
\* five points; each is kept with the numerator i + 1 of its height
enumerate_long(long) ==
    [j \in 1..Cardinality(long) |->
        [branch |-> "adaptive",
         height |-> CHOOSE i \in long :
                       Cardinality({k \in long : k <= i}) = j]]

\* the adaptive-threshold branch: contours_all starts again from empty;
\* f contours pass its area filter
adaptive_threshold ==
    /\ cc_pc = "adaptive"
    /\ \E f \in 0..MaxFiltered : \E long \in SUBSET (1..f) :
          /\ filtered_contours' = f
          /\ IF f >= 3
             THEN /\ contours_all' = enumerate_long(long)
                  /\ cc_result' = contours_all'
                  /\ cc_pc' = "returned"
             ELSE /\ contours_all' = <<>>
                  /\ cc_result' = cc_result
                  /\ cc_pc' = "fallback"
    /\ cc_log' = cc_log \cup {"Adaptiver Threshold ergab Konturen"}
    /\ evaluated' = evaluated \cup {"adaptive"}
    /\ UNCHANGED <<cc_opts, cc_level>>
    /\ UNCHANGED notContour

\* the fallback branch: one threshold per level, every contour of at least
\* five points is kept
fallback_levels ==
    /\ cc_pc = "fallback"
    /\ \E k \in 0..MaxFiltered :
          /\ contours_all' = branch_contours("fallback", k)
          /\ cc_result' = contours_all'
    /\ cc_log' = cc_log \cup {"Verwende Fallback-Methode"}
    /\ evaluated' = evaluated \cup {"fallback"}
    /\ cc_pc' = "returned"
    /\ UNCHANGED <<cc_opts, cc_level, filtered_contours>>
    /\ UNCHANGED notContour

NextContour ==
    \/ extract_contours_call
    \/ photo_threshold
    \/ photo_end
    \/ adaptive_threshold
    \/ fallback_levels

SpecContour == Init /\ [][NextContour]_vars

RECURSIVE sum_found(_, _)
sum_found(found, n) ==
    IF n = 0 THEN 0 ELSE found[n] + sum_found(found, n - 1)

\* how many photo-mode contours of the image pass the length and area
\* filters
photo_passing == sum_found(cc_opts.found, cc_opts.num_contours)

\* C18: when is_photo is set and at least 3 photo-mode contours pass the
\* length and area filters, extract_contours returns photo-mode contours
\* and heights without evaluating the adaptive-threshold or the fallback
\* branch; when is_photo is not set the photo-mode branch is never
\* evaluated.
C18_PhotoBranchReturnsAlone ==
    /\ (cc_pc = "returned" /\ cc_opts.is_photo /\ photo_passing >= 3)
          => /\ evaluated = {"photo"}
             /\ Len(cc_result) >= 3
             /\ \A j \in 1..Len(cc_result) :
                   /\ cc_result[j].branch = "photo"
                   /\ cc_result[j].height \in 1..cc_opts.num_contours
    /\ (cc_pc # "idle" /\ ~cc_opts.is_photo) => "photo" \notin evaluated

\* more than five contours pass the filters, those of an odd threshold that
\* come after the fifth are dropped, and the five kept ones are returned
C18_Witness ==
    /\ cc_pc = "returned"
    /\ cc_opts.is_photo
    /\ photo_passing > 5
    /\ Len(cc_result) = 5
    /\ evaluated = {"photo"}

adaptive_returned ==
    /\ cc_pc = "returned"
    /\ "adaptive" \in evaluated
    /\ "fallback" \notin evaluated

\* C23: when at least 3 contours pass the area filter of the
\* adaptive-threshold branch, the branch returns each of them, in trace
\* order, with height (index+1)/filtered_count: the returned list has
\* exactly filtered_count entries.
C23_AdaptiveReturnsEveryFiltered ==
    (adaptive_returned /\ filtered_contours >= 3)
        => /\ Len(cc_result) = filtered_contours
           /\ \A j \in 1..Len(cc_result) :
                 /\ cc_result[j].branch = "adaptive"
                 /\ cc_result[j].height = j

\* what the branch does keep: trace order and the heights of the positions
C23_AdaptiveKeepsTraceOrder ==
    adaptive_returned
        => /\ filtered_contours >= 3
           /\ Len(cc_result) <= filtered_contours
           /\ \A j \in 1..Len(cc_result) :
                 /\ cc_result[j].height \in 1..filtered_contours
                 /\ \A k \in 1..(j - 1) :
                       cc_result[k].height < cc_result[j].height

(***************************************************************************)
(* RedirectText.write on a log widget shared by two worker threads and the *)
(* UI thread.  Each Tk call of write is one step; the calls of different   *)
(* threads interleave.  A text widget in state "disabled" ignores insert   *)
(* and delete.  A string is the pair of its writer and its number.         *)
(***************************************************************************)
\* the string a writer passes to its next call of write
lg_string(w) == <<w, lg_done[w] + 1>>

\* print(...) in a worker calls sys.stdout.write(string)
write_call(w) ==
    /\ lg_pc[w] = "idle"
    /\ lg_done[w] < MaxWrites
    /\ lg_pc' = [lg_pc EXCEPT ![w] = "configure_normal"]
    /\ UNCHANGED <<lg_done, ui_pc, text_state, log_text, lg_expected>>
    /\ UNCHANGED notLog

\* self.text_widget.configure(state="normal")
write_configure_normal(w) ==
    /\ lg_pc[w] = "configure_normal"
    /\ text_state' = "normal"
    /\ lg_pc' = [lg_pc EXCEPT ![w] = "insert"]
    /\ UNCHANGED <<lg_done, ui_pc, log_text, lg_expected>>
    /\ UNCHANGED notLog

\* Text.insert and Text.delete on a widget in the given state
text_insert(state, text, string) ==
    IF state = "normal" THEN text \cup {string} ELSE text

text_delete(state, text) ==
    IF state = "normal" THEN {} ELSE text

\* self.text_widget.insert(tk.END, string)
write_insert(w) ==
    /\ lg_pc[w] = "insert"
    /\ log_text' = text_insert(text_state, log_text, lg_string(w))
    /\ lg_expected' = lg_expected \cup {lg_string(w)}
    /\ lg_pc' = [lg_pc EXCEPT ![w] = "see"]
    /\ UNCHANGED <<lg_done, ui_pc, text_state>>
    /\ UNCHANGED notLog

\* self.text_widget.see(tk.END)
write_see(w) ==
    /\ lg_pc[w] = "see"
    /\ lg_pc' = [lg_pc EXCEPT ![w] = "configure_disabled"]
    /\ UNCHANGED <<lg_done, ui_pc, text_state, log_text, lg_expected>>
    /\ UNCHANGED notLog

\* self.text_widget.configure(state="disabled"), and write returns
write_configure_disabled(w) ==
    /\ lg_pc[w] = "configure_disabled"
    /\ text_state' = "disabled"
    /\ lg_done' = [lg_done EXCEPT ![w] = lg_done[w] + 1]
    /\ lg_pc' = [lg_pc EXCEPT ![w] = "idle"]
    /\ UNCHANGED <<ui_pc, log_text, lg_expected>>
    /\ UNCHANGED notLog

\* a button handler on the UI thread clears the log ("Log-Bereich leeren"):
\* configure(state="normal")
clear_configure_normal ==
    /\ ui_pc = "idle"
    /\ text_state' = "normal"
    /\ ui_pc' = "delete"
    /\ UNCHANGED <<lg_pc, lg_done, log_text, lg_expected>>
    /\ UNCHANGED notLog

\* self.log_text.delete(1.0, tk.END)
clear_delete ==
    /\ ui_pc = "delete"
    /\ log_text' = text_delete(text_state, log_text)
    /\ lg_expected' = {}
    /\ ui_pc' = "configure_disabled"
    /\ UNCHANGED <<lg_pc, lg_done, text_state>>
    /\ UNCHANGED notLog

\* self.log_text.configure(state="disabled")
clear_configure_disabled ==
    /\ ui_pc = "configure_disabled"
    /\ text_state' = "disabled"
    /\ ui_pc' = "idle"
    /\ UNCHANGED <<lg_pc, lg_done, log_text, lg_expected>>
    /\ UNCHANGED notLog

NextLog ==
    \/ \E w \in Writers : write_call(w)
    \/ \E w \in Writers : write_configure_normal(w)
    \/ \E w \in Writers : write_insert(w)
    \/ \E w \in Writers : write_see(w)
    \/ \E w \in Writers : write_configure_disabled(w)
    \/ clear_configure_normal
    \/ clear_delete
    \/ clear_configure_disabled

SpecLog == Init /\ [][NextLog]_vars

\* C24: no text written to a log panel is lost: for every interleaving of
\* concurrent writers to the same log widget, every string passed to the
\* insert of the redirector's write is in the log unless a later clear
\* removed it.
C24_NoWrittenTextIsLost ==
    lg_expected \subseteq log_text

\* C25: in the unified application all text printed by a worker started
\* from tab T is appended to the log panel of tab T, for every interleaving
\* of the worker with tab-change events.
C25_WorkerPrintsToItsOwnTab ==
    app_worker # -1 => printed_to \subseteq {LogPanels[app_worker + 1]}

\* C30: choosing a file through File > Open leaves the form in exactly the
\* state that dropping the same path does: the same tab is selected and
\* the input and output fields receive the same strings, the input field
\* holding the selected path unchanged.
C30_OpenLeavesFormAsDrop ==
    [][\A filename \in DroppedFiles :
          open_file(filename) => load_into_tab(filename, filename)]_vars

\* the part that holds: File > Open selects the tab a drop selects
C30_OpenSelectsTabAsDrop ==
    [][\A filename \in DroppedFiles :
          open_file(filename)
             => current_tab' = (IF tab_of(filename) = -1 THEN current_tab
                                ELSE tab_of(filename))]_vars

(***************************************************************************)
(* The height-field mesh of image_to_stl (normal path): vertices and       *)
(* faces as index triples, modules/image_to_stl.py 259-354                  *)
(***************************************************************************)

MaxRows == 4
MaxCols == 4

\* rows, cols = height_map.shape
HeightMapShapes == [rows : 1..MaxRows, cols : 1..MaxCols]

\* the image has been turned into a height map; vertices = [], faces = []
mesh_begin ==
    /\ hf_pc = "idle"
    /\ \E shape \in HeightMapShapes :
          /\ hf_rows' = shape.rows
          /\ hf_cols' = shape.cols
    /\ hf_pc' = "top_vertices"
    /\ UNCHANGED <<hf_i, hf_j, hf_vertices, hf_faces>>
    /\ UNCHANGED notMesh

\* for i in range(rows): for j in range(cols): vertices.append([j, ..])
top_vertex_loop ==
    /\ hf_pc = "top_vertices"
    /\ hf_vertices' = hf_vertices + hf_rows * hf_cols
    /\ hf_pc' = "bottom_vertices"
    /\ UNCHANGED <<hf_rows, hf_cols, hf_i, hf_j, hf_faces>>
    /\ UNCHANGED notMesh

\* the flat base: one more vertex for every cell of the height map
bottom_vertex_loop ==
    /\ hf_pc = "bottom_vertices"
    /\ hf_vertices' = hf_vertices + hf_rows * hf_cols
    /\ hf_pc' = "top"
    /\ UNCHANGED <<hf_rows, hf_cols, hf_i, hf_j, hf_faces>>
    /\ UNCHANGED notMesh

\* "Oberes Dreieck" and "Unteres Dreieck" of cell (i, j) of the top side
top_triangles(i, j, cols) ==
    << <<i * cols + j, i * cols + j + 1, (i + 1) * cols + j>>,
       <<(i + 1) * cols + j, i * cols + j + 1, (i + 1) * cols + j + 1>> >>

\* the two triangles of cell (i, j) of the bottom side ("invertiert")
bottom_triangles(i, j, cols, top_vertices) ==
    << <<top_vertices + i * cols + j, top_vertices + (i + 1) * cols + j,
         top_vertices + i * cols + j + 1>>,
       <<top_vertices + i * cols + j + 1, top_vertices + (i + 1) * cols + j,
         top_vertices + (i + 1) * cols + j + 1>> >>

\* front wall (row 0), column j
front_triangles(j, top_vertices) ==
    << <<j, j + 1, top_vertices + j>>,
       <<j + 1, top_vertices + j + 1, top_vertices + j>> >>

back_triangles_first_only(j, rows, cols, top_vertices) ==
    << <<(rows - 1) * cols + j, top_vertices + (rows - 1) * cols + j,
         (rows - 1) * cols + j + 1>> >>

\* back wall (row rows - 1), column j
back_triangles(j, rows, cols, top_vertices) ==
    << <<(rows - 1) * cols + j, top_vertices + (rows - 1) * cols + j,
         (rows - 1) * cols + j + 1>>,
       <<(rows - 1) * cols + j + 1, top_vertices + (rows - 1) * cols + j,
         top_vertices + (rows - 1) * cols + j + 1>> >>

\* left wall (column 0), row i
left_triangles(i, cols, top_vertices) ==
    << <<i * cols, top_vertices + i * cols, (i + 1) * cols>>,
       <<(i + 1) * cols, top_vertices + i * cols,
         top_vertices + (i + 1) * cols>> >>

\* right wall (column cols - 1), row i
right_triangles(i, cols, top_vertices) ==
    << <<i * cols + cols - 1, (i + 1) * cols + cols - 1,
         top_vertices + i * cols + cols - 1>>,
       <<(i + 1) * cols + cols - 1, top_vertices + (i + 1) * cols + cols - 1,
         top_vertices + i * cols + cols - 1>> >>

\* one turn of "for i in range(rows - 1): for j in range(cols - 1)": the
\* body for cell (hf_i, hf_j), or the exit to the statement after the loop
cell_loop(here, triangles, after) ==
    /\ hf_pc = here
    /\ IF hf_i < hf_rows - 1 /\ hf_j < hf_cols - 1
       THEN /\ hf_faces' = hf_faces \o triangles
            /\ IF hf_j + 1 < hf_cols - 1
               THEN hf_j' = hf_j + 1 /\ hf_i' = hf_i
               ELSE hf_j' = 0 /\ hf_i' = hf_i + 1
            /\ hf_pc' = here
       ELSE /\ hf_faces' = hf_faces
            /\ hf_i' = 0
            /\ hf_j' = 0
            /\ hf_pc' = after
    /\ UNCHANGED <<hf_rows, hf_cols, hf_vertices>>
    /\ UNCHANGED notMesh

\* lines 274-288: the top side
top_face_loop ==
    /\ hf_pc = "top"
    /\ cell_loop("top", top_triangles(hf_i, hf_j, hf_cols), "bottom")

\* lines 290-306: top_vertices = rows * cols, then the bottom side
bottom_face_loop ==
    /\ hf_pc = "bottom"
    /\ cell_loop("bottom",
                 bottom_triangles(hf_i, hf_j, hf_cols, hf_rows * hf_cols),
                 "front")

\* one turn of "for j in range(cols - 1)"
column_loop(here, triangles, after) ==
    /\ hf_pc = here
    /\ IF hf_j < hf_cols - 1
       THEN /\ hf_faces' = hf_faces \o triangles
            /\ hf_j' = hf_j + 1
            /\ hf_pc' = here
       ELSE /\ hf_faces' = hf_faces
            /\ hf_j' = 0
            /\ hf_pc' = after
    /\ UNCHANGED <<hf_rows, hf_cols, hf_i, hf_vertices>>
    /\ UNCHANGED notMesh

\* one turn of "for i in range(rows - 1)"
row_loop(here, triangles, after) ==
    /\ hf_pc = here
    /\ IF hf_i < hf_rows - 1
       THEN /\ hf_faces' = hf_faces \o triangles
            /\ hf_i' = hf_i + 1
            /\ hf_pc' = here
       ELSE /\ hf_faces' = hf_faces
            /\ hf_i' = 0
            /\ hf_pc' = after
    /\ UNCHANGED <<hf_rows, hf_cols, hf_j, hf_vertices>>
    /\ UNCHANGED notMesh

\* lines 308-318: the front wall
front_wall_loop ==
    /\ hf_pc = "front"
    /\ column_loop("front", front_triangles(hf_j, hf_rows * hf_cols),
                   "back")

\* lines 320-330: the back wall
back_wall_loop ==
    /\ hf_pc = "back"
    /\ column_loop("back",
                   back_triangles(hf_j, hf_rows, hf_cols, hf_rows * hf_cols),
                   "left")

\* lines 332-342: the left wall
left_wall_loop ==
    /\ hf_pc = "left"
    /\ row_loop("left", left_triangles(hf_i, hf_cols, hf_rows * hf_cols),
                "right")

\* lines 344-352: the right wall; after it the lists become the arrays of the mesh
right_wall_loop ==
    /\ hf_pc = "right"
    /\ row_loop("right", right_triangles(hf_i, hf_cols, hf_rows * hf_cols),
                "done")

NextMesh ==
    \/ mesh_begin
    \/ top_vertex_loop
    \/ bottom_vertex_loop
    \/ top_face_loop
    \/ bottom_face_loop
    \/ front_wall_loop
    \/ back_wall_loop
    \/ left_wall_loop
    \/ right_wall_loop

SpecMesh == Init /\ [][NextMesh]_vars

\* the directed edges a -> b of triangle number k, as <<k, a, b>>
directed_edges(k) ==
    {<<k, hf_faces[k][1], hf_faces[k][2]>>,
     <<k, hf_faces[k][2], hf_faces[k][3]>>,
     <<k, hf_faces[k][3], hf_faces[k][1]>>}

all_directed_edges == UNION {directed_edges(k) : k \in DOMAIN hf_faces}

\* the triangles that hold the undirected edge of e
triangles_at(e) ==
    {d[1] : d \in {x \in all_directed_edges :
                      {x[2], x[3]} = {e[2], e[3]}}}

\* the triangles that hold the directed edge of e
triangles_along(e) ==
    {d[1] : d \in {x \in all_directed_edges :
                      x[2] = e[2] /\ x[3] = e[3]}}

normal_path_done == hf_pc = "done" /\ hf_rows >= 2 /\ hf_cols >= 2

\* C26: for rows >= 2 and cols >= 2 the mesh of the normal path is closed at
\* index level: it has 2 * rows * cols vertices, every face index is below
\* that count, and every undirected edge lies in exactly two triangles.
C26_HeightFieldMeshIsClosed ==
    normal_path_done =>
        /\ hf_vertices = 2 * hf_rows * hf_cols
        /\ \A k \in DOMAIN hf_faces :
              \A n \in 1..3 : hf_faces[k][n] \in 0..(hf_vertices - 1)
        /\ \A e \in all_directed_edges : Cardinality(triangles_at(e)) = 2

\* a 3 x 3 mesh is complete: 8 top, 8 bottom and 16 wall triangles
C26_Witness ==
    /\ normal_path_done
    /\ hf_rows = 3
    /\ hf_cols = 3
    /\ Len(hf_faces) = 32

\* C27: the mesh of the normal path is winding-consistent: no directed edge
\* a -> b occurs in two different triangles.
C27_HeightFieldMeshIsWindingConsistent ==
    normal_path_done =>
        \A e \in all_directed_edges : Cardinality(triangles_along(e)) = 1

\* what holds: no triangle repeats a vertex, so every triangle has three
\* different directed edges
C27_NoTriangleRepeatsAVertex ==
    \A k \in DOMAIN hf_faces :
        Cardinality({hf_faces[k][1], hf_faces[k][2], hf_faces[k][3]}) = 3

(***************************************************************************)
(* The size handed to img.resize by image_to_stl: image-to-stl.py 69-107,  *)
(* modules/image_to_stl.py 99-137.  A width or height of 0 stands for None; *)
(* int() of a positive quotient is int_of, the quotient taken exactly.      *)
(***************************************************************************)

MaxOrig == 3
MaxRequest == 3
MaxSizeLimit == 3

\* img.size of the opened image: both sides at least 1
ImageSizes == [orig_width : 1..MaxOrig, orig_height : 1..MaxOrig]

\* width=None, height=None or a positive number of each; max_size >= 1
SizeArgs == [width : 0..MaxRequest, height : 0..MaxRequest,
             max_size : 1..MaxSizeLimit]

smaller(a, b) == IF a <= b THEN a ELSE b

\* "if width is None and height is None": the longer side is limited to
\* max_size, the other follows the aspect ratio
unrequested_size(orig_width, orig_height, max_size) ==
    IF orig_width >= orig_height
    THEN LET width == smaller(orig_width, max_size)
         IN  [width |-> width,
              height |-> int_of(width * orig_height, orig_width)]
    ELSE LET height == smaller(orig_height, max_size)
         IN  [width |-> int_of(height * orig_width, orig_height),
              height |-> height]

\* "if width is None: ..." then "if height is None: ..."
requested_size(orig_width, orig_height, width, height) ==
    LET w == IF width = 0 THEN int_of(height * orig_width, orig_height)
             ELSE width
        h == IF height = 0 THEN int_of(w * orig_height, orig_width)
             ELSE height
    IN  [width |-> w, height |-> h]

\* "if width > max_size or height > max_size": the larger side becomes
\* max_size, the other is scaled by max_size / larger side
limited_size(width, height, max_size) ==
    IF width > max_size \/ height > max_size
    THEN IF width >= height
         THEN [width |-> max_size,
               height |-> int_of(height * max_size, width)]
         ELSE [width |-> int_of(width * max_size, height),
               height |-> max_size]
    ELSE [width |-> width, height |-> height]

\* Image.open(image_path), img.convert('L'), orig_width, orig_height = img.size
image_open ==
    /\ rs_pc = "idle"
    /\ rs_img' \in ImageSizes
    /\ rs_args' \in SizeArgs
    /\ rs_pc' = "dimensions"
    /\ UNCHANGED rs_size
    /\ UNCHANGED notSize

\* the branch without a requested dimension
size_from_original ==
    /\ rs_pc = "dimensions"
    /\ rs_args.width = 0 /\ rs_args.height = 0
    /\ rs_size' = unrequested_size(rs_img.orig_width, rs_img.orig_height,
                                   rs_args.max_size)
    /\ rs_pc' = "resize"
    /\ UNCHANGED <<rs_img, rs_args>>
    /\ UNCHANGED notSize

\* the branch with a requested dimension: the missing one is computed
size_from_request ==
    /\ rs_pc = "dimensions"
    /\ ~(rs_args.width = 0 /\ rs_args.height = 0)
    /\ rs_size' = requested_size(rs_img.orig_width, rs_img.orig_height,
                                 rs_args.width, rs_args.height)
    /\ rs_pc' = "limit"
    /\ UNCHANGED <<rs_img, rs_args>>
    /\ UNCHANGED notSize

\* ... and the result is checked against max_size
size_limit ==
    /\ rs_pc = "limit"
    /\ rs_size' = limited_size(rs_size.width, rs_size.height,
                               rs_args.max_size)
    /\ rs_pc' = "resize"
    /\ UNCHANGED <<rs_img, rs_args>>
    /\ UNCHANGED notSize

\* img = img.resize((width, height), Image.LANCZOS)
resize_call ==
    /\ rs_pc = "resize"
    /\ rs_pc' = "resized"
    /\ UNCHANGED <<rs_img, rs_args, rs_size>>
    /\ UNCHANGED notSize

NextSize ==
    \/ image_open
    \/ size_from_original
    \/ size_from_request
    \/ size_limit
    \/ resize_call

SpecSize == Init /\ [][NextSize]_vars

\* C28: for every original image size (sides >= 1), every optional width
\* and height request and every max_size >= 1, the width and the height
\* passed to resize are both at least 1 and at most max_size.
C28_ResizeTargetWithinBounds ==
    rs_pc = "resized" =>
        /\ rs_size.width \in 1..rs_args.max_size
        /\ rs_size.height \in 1..rs_args.max_size

\* what holds: neither side is negative or larger than max_size
C28_ResizeTargetAtMostMaxSize ==
    rs_pc = "resized" =>
        /\ rs_size.width \in 0..rs_args.max_size
        /\ rs_size.height \in 0..rs_args.max_size

(***************************************************************************)
(* The numeric input mask: utils/validate_entry.py 8-34, attached to every *)
(* IntVar / DoubleVar field by create_labeled_entry, utils/gui_utils.py     *)
(* 60-64.  A string is a sequence of characters.                            *)
(***************************************************************************)

MaxLiteral == 3

Digits == {"0", "5"}
Signs == {"-", "+"}
Characters == Digits \cup Signs \cup {"."}

\* the strings of exactly n characters
StringsOf(n) == [1..n -> Characters]

Strings == UNION {StringsOf(n) : n \in 0..MaxLiteral}

\* value == "" or re.match(r'^[-+]?[0-9]*\.?[0-9]+$', value): an optional
\* sign, digits before an optional point, then at least one digit
validate_numeric(value) ==
    \/ value = <<>>
    \/ \E s \in 0..1 : \E a \in 0..Len(value) : \E d \in 0..1 :
          /\ Len(value) - s - a - d >= 1
          /\ s = 1 => value[1] \in Signs
          /\ \A k \in (s + 1)..(s + a) : value[k] \in Digits
          /\ d = 1 => value[s + a + 1] = "."
          /\ \A k \in (s + a + d + 1)..Len(value) : value[k] \in Digits

\* the user clears a numeric field and sets out to type a literal that the
\* mask accepts
entry_cleared ==
    /\ en_pc = "idle"
    /\ \E literal \in Strings :
          /\ validate_numeric(literal)
          /\ en_literal' = literal
    /\ en_text' = <<>>
    /\ en_refused' = FALSE
    /\ en_pc' = "typing"
    /\ UNCHANGED notEntry

\* validate="key", validatecommand=(validate_numeric, '%P'): the next
\* character of the literal is typed at the end of the field; the edit is
\* made only if validate_numeric(%P) is true for the would-be content
key_pressed ==
    /\ en_pc = "typing"
    /\ Len(en_text) < Len(en_literal)
    /\ ~en_refused
    /\ LET P == Append(en_text, en_literal[Len(en_text) + 1])
       IN  IF validate_numeric(P)
           THEN en_text' = P /\ en_refused' = FALSE
           ELSE en_text' = en_text /\ en_refused' = TRUE
    /\ UNCHANGED <<en_pc, en_literal>>
    /\ UNCHANGED notEntry

\* the user leaves the field
entry_left ==
    /\ en_pc = "typing"
    /\ en_text = en_literal \/ en_refused
    /\ en_pc' = "left"
    /\ UNCHANGED <<en_literal, en_text, en_refused>>
    /\ UNCHANGED notEntry

NextEntry ==
    \/ entry_cleared
    \/ key_pressed
    \/ entry_left

SpecEntry == Init /\ [][NextEntry]_vars

\* C29: every value the numeric input mask accepts can be typed one
\* character at a time: no keystroke on the way to an accepted literal is
\* refused, i.e. each prefix of an accepted literal is accepted.
C29_AcceptedLiteralCanBeTyped ==
    ~en_refused

\* what holds: a literal of digits only is typed without a refusal
C29_DigitsCanBeTyped ==
    (\A k \in DOMAIN en_literal : en_literal[k] \in Digits) => ~en_refused

====
